---- MODULE Spec2Model ----
(***************************************************************************)
(* Turn / plan orchestration engine of the MetaMind tutor.                 *)
(*                                                                         *)
(* The state is the SQLite repository (sessions, interactions,             *)
(* session_plans, session_stats, progress_snapshots, student_skills,       *)
(* student_topics) plus the process-wide mastery override map.  Each       *)
(* action is one complete call of an entry point:                          *)
(* handle_student_message (one action per branch of the handler),          *)
(* refresh_plan and advance_session_plan.  call_with_retry is followed     *)
(* pass by pass of its loop (retry), and the functions of mastery are      *)
(* applied to arguments drawn from a grid (probe).                         *)
(*                                                                         *)
(* Floats are fixed point: mastery and mastery deltas in millionths        *)
(* (Scale), plan difficulty and skill mastery in hundredths.  SQL NULL /   *)
(* Python None is the string "None" for text columns and the empty         *)
(* sequence for numeric and record values (<<v>> when present).            *)
(***************************************************************************)
EXTENDS Integers, Sequences, FiniteSets, TLC

\* ------------------------------------------------------------------ bounds
MaxCalls == 3
MaxSessions == 2
MaxStepCalls == 4
SmallBudget == 2
MaxRetries == 3
MaxSolves == 13
GridSteps == 100
MaxSkillCalls == 3
MaxOverrideCalls == 2
MaxRaceCalls == 3
MaxPlanCalls == 2

\* --------------------------------------------------------------- constants
Scale == 1000 * 1000
DefaultStepBudget == 6
DefaultMaxRetries == 5

Users == {"u1"}
Topics == {"t1", "t2"}
SkillIds == {"k1"}
SessionIds == 1..MaxSessions
StepBudgets == {SmallBudget, DefaultStepBudget}

None == "None"
Absent == "absent"

Max(a, b) == IF a >= b THEN a ELSE b
Min(a, b) == IF a <= b THEN a ELSE b

RECURSIVE GCD(_, _)
GCD(a, b) == IF b = 0 THEN a ELSE GCD(b, a % b)

RECURSIVE SumDeltas(_, _, _)
SumDeltas(rows, user_id, topic) ==
    IF rows = <<>> THEN 0
    ELSE (IF Head(rows).user_id = user_id /\ Head(rows).topic = topic
             THEN Head(rows).mastery_delta ELSE 0)
         + SumDeltas(Tail(rows), user_id, topic)

RECURSIVE MaxTurnIndex(_)
MaxTurnIndex(rows) ==
    IF rows = <<>> THEN -1
    ELSE Max(Head(rows).turn_index, MaxTurnIndex(Tail(rows)))

\* ------------------------------------------------------------------- state
VARIABLES
    sessions,            \* sessions table: session_id (1..Len) -> Session
    interactions,        \* interactions table per session, in insertion order
    session_plans,       \* session_plans table: session_id -> <<>> | <<plan>>
    session_stats,       \* session_stats table: session_id -> <<>> | <<row>>
    progress_snapshots,  \* progress_snapshots table, in insertion order
    student_skills,      \* student_skills table: <<user, topic, skill>> -> <<>> | <<row>>
    student_topics,      \* student_topics table: <<user, topic>> -> <<>> | <<difficulty>>
    MASTERY_OVERRIDE,    \* dev override map: <<user, topic>> -> <<>> | <<value>>
    last,                \* what the most recent call did and returned
    since_refresh,       \* per session: <<n, b>> = n non-SOLVED normal turns run
                         \* since the last step-budget refresh attempt, which
                         \* left a plan with step_budget b; <<>> = none yet
                         \* or a forced / external refresh or advance intervened
    solve_log,           \* per session: steps_to_solve of each SOLVED normal
                         \* turn so far, in order (history, not stored by the code)
    calls,               \* number of entry-point calls made so far
    retry,               \* one run of call_with_retry: its arguments, locals,
                         \* position, and what it did (fn invocations, sleeps)
    probe,               \* the arguments a function of mastery.py /
                         \* controller.py is applied to, and what it returned
    in_flight            \* per caller: the locals and position of its call
                         \* of handle_student_message or refresh_plan while
                         \* it is suspended in a call of a language model

vars == <<sessions, interactions, session_plans, session_stats,
          progress_snapshots, student_skills, student_topics,
          MASTERY_OVERRIDE, last, since_refresh, solve_log, calls,
          retry, probe, in_flight>>

repo == <<sessions, interactions, session_plans, session_stats,
          progress_snapshots, student_skills, student_topics>>

\* All that the application keeps: everything but retry and probe.
app_vars == <<repo, MASTERY_OVERRIDE, last, since_refresh, solve_log, calls>>

\* ------------------------------------------------- app/learning/mastery.py
\* A variant of compute_delta without the 0.05 floor.
unfloored_delta(current) == (Scale - current) \div 5

\* compute_delta: max(0.05, 0.2 * (1 - current)), in millionths.
compute_delta(current) == Max(Scale \div 20, (Scale - current) \div 5)

\* A variant of target_from_mastery whose thresholds belong to the lower label.
target_with_inclusive_bounds(m) ==
    IF m <= (3 * Scale) \div 10 THEN "easy"
    ELSE IF m <= (7 * Scale) \div 10 THEN "medium"
    ELSE "hard"

target_from_mastery(m) ==
    IF m < (3 * Scale) \div 10 THEN "easy"
    ELSE IF m < (7 * Scale) \div 10 THEN "medium"
    ELSE "hard"

\* ---------------------------------------------- app/storage/sqlite_store.py
\* SELECT COALESCE(MAX(turn_index), -1) + 1 over the session's interactions.
\* A variant of get_next_turn_index that hands out the highest index in use
\* again; ContiguousTurnIndices has to tell it from the original.
repeated_turn_index(session_id) == MaxTurnIndex(interactions[session_id])

get_next_turn_index(session_id) == MaxTurnIndex(interactions[session_id]) + 1

\* A variant of get_topic_mastery without the cap.
uncapped_mastery(user_id, topic) == SumDeltas(progress_snapshots, user_id, topic)

\* Mastery = sum(deltas) capped at 1.0.
\* A variant of get_topic_mastery that answers with the developer override
\* when one is set.
mastery_with_override(user_id, topic) ==
    IF MASTERY_OVERRIDE[<<user_id, topic>>] # <<>>
    THEN MASTERY_OVERRIDE[<<user_id, topic>>][1]
    ELSE Min(Scale, SumDeltas(progress_snapshots, user_id, topic))

get_topic_mastery(user_id, topic) ==
    Min(Scale, SumDeltas(progress_snapshots, user_id, topic))

get_session_plan(session_id) == session_plans[session_id]

get_session_stats(session_id) == session_stats[session_id]

get_topic_difficulty(user_id, topic) ==
    IF student_topics[<<user_id, topic>>] = <<>> THEN 50
    ELSE student_topics[<<user_id, topic>>][1]

_clamp(x, lo, hi) == Max(lo, Min(hi, x))

_merge_context(contexts_seen, new_tag) ==
    IF new_tag = None THEN contexts_seen
    ELSE IF \E i \in 1..Len(contexts_seen) : contexts_seen[i] = new_tag
         THEN contexts_seen
         ELSE Append(contexts_seen, new_tag)

\* A variant of upsert_student_skill that does not cap the mastery.
upsert_without_cap(row, needed_help, context_tag) ==
    LET inc == IF needed_help THEN 5 ELSE 15
        count == IF row = <<>> THEN 1 ELSE row[1].count + 1
        mastery == IF row = <<>> THEN 35 + inc ELSE row[1].mastery + inc
        ctx == IF row = <<>> THEN _merge_context(<<>>, context_tag)
               ELSE _merge_context(row[1].contexts_seen, context_tag)
    IN  <<[count |-> count,
           mastery |-> mastery,
           needs_reinforcement |-> (mastery < 60 \/ count < 2),
           contexts_seen |-> ctx]>>

\* One row of student_skills after upsert_student_skill (mastery in hundredths).
upsert_student_skill(row, needed_help, context_tag) ==
    LET inc == IF needed_help THEN 5 ELSE 15
        count == IF row = <<>> THEN 1 ELSE row[1].count + 1
        mastery == IF row = <<>> THEN _clamp(35 + inc, 0, 95)
                   ELSE _clamp(row[1].mastery + inc, 0, 95)
        ctx == IF row = <<>> THEN _merge_context(<<>>, context_tag)
               ELSE _merge_context(row[1].contexts_seen, context_tag)
    IN  <<[count |-> count,
           mastery |-> mastery,
           needs_reinforcement |-> (mastery < 60 \/ count < 2),
           contexts_seen |-> ctx]>>

\* The student_skills table after the loop over skills[:5] of
\* update_student_model_from_learning.
RECURSIVE upsert_skills(_, _, _, _, _, _)
upsert_skills(table, user_id, topic, skills, needed_help, context_tag) ==
    IF skills = <<>> THEN table
    ELSE LET key == <<user_id, topic, Head(skills)>>
             next == IF key \in DOMAIN table
                     THEN [table EXCEPT ![key] =
                              upsert_student_skill(table[key], needed_help, context_tag)]
                     ELSE table
         IN  upsert_skills(next, user_id, topic, Tail(skills), needed_help, context_tag)

\* The student_topics table after set_topic_difficulty(cur +0.05 | -0.10).
update_topic_difficulty(user_id, topic, needed_help) ==
    LET cur_diff == get_topic_difficulty(user_id, topic)
        new_diff == IF needed_help THEN cur_diff - 10 ELSE cur_diff + 5
    IN  [student_topics EXCEPT ![<<user_id, topic>>] = <<_clamp(new_diff, 10, 95)>>]

\* ----------------------------------------------- app/dev/mastery_overrides.py
\* A variant of has_override that never finds an override.
override_ignored(user_id, topic) == FALSE

has_override(user_id, topic) == MASTERY_OVERRIDE[<<user_id, topic>>] # <<>>

get_override(user_id, topic) == MASTERY_OVERRIDE[<<user_id, topic>>][1]

\* ---------------------------------------------------------- app/controller.py
WarmupGoal(topic) ==
    IF topic = "t1" THEN "Warm-up and diagnose understanding of t1"
    ELSE "Warm-up and diagnose understanding of t2"

\* A variant of default_difficulty that leaves out the mastery adjustment.
base_difficulty(topic_mastery, target_difficulty) ==
    IF target_difficulty = "easy" THEN 30
    ELSE IF target_difficulty = "medium" THEN 55
    ELSE 75

\* round(max(0.10, min(0.95, base + (mastery - 0.5) * 0.2)), 2) in hundredths.
default_difficulty(topic_mastery, target_difficulty) ==
    LET base == IF target_difficulty = "easy" THEN 30
                ELSE IF target_difficulty = "medium" THEN 55
                ELSE 75
        raw == base * (Scale \div 100) + (topic_mastery - Scale \div 2) \div 5
        clamped == Max(Scale \div 10, Min((95 * Scale) \div 100, raw))
    IN  (clamped + Scale \div 200) \div (Scale \div 100)

\* ensure_plan: an existing plan keeps its fields and has its topic set; a
\* missing plan becomes the warm-up default.
ensure_plan(plan, topic, topic_mastery, target_difficulty) ==
    IF plan # <<>> THEN [plan[1] EXCEPT !.topic = topic]
    ELSE [topic |-> topic,
          mode |-> "reinforce",
          target_skills |-> <<>>,
          question_type |-> "apply",
          difficulty |-> default_difficulty(topic_mastery, target_difficulty),
          hint_policy |-> "medium",
          goal |-> WarmupGoal(topic),
          needed_help |-> FALSE,
          context_tag |-> "warmup",
          steps_used |-> 0,
          step_budget |-> DefaultStepBudget,
          refresh_reason |-> Absent]

\* A variant of _hint_is_high that counts every policy but "low" as a hint.
hint_is_not_low(hint_policy) == hint_policy # "low"

_hint_is_high(hint_policy) == hint_policy = "high"

\* A variant of steps_to_solve that leaves out the solving message.
steps_before_reply(steps_used_before_reply) == steps_used_before_reply

\* steps_to_solve = max(1, int(steps_used_before_reply) + 1)
steps_to_solve(steps_used_before_reply) == Max(1, steps_used_before_reply + 1)

\* A variant of running_avg that forgets the earlier solves.
latest_steps_only(avg_steps, solved, steps) == <<steps, 1>>

\* The running average (a reduced fraction <<n, d>>) after one more solve:
\* avg_new = (avg_old * (solved - 1) + steps) / solved.
running_avg(avg_steps, solved, steps) ==
    IF avg_steps = <<>> THEN <<steps, 1>>
    ELSE LET n == avg_steps[1] * (solved - 1) + steps * avg_steps[2]
             d == avg_steps[2] * solved
             g == GCD(n, d)
         IN  <<n \div g, d \div g>>

\* The session_stats row written by _update_session_stats_after_turn.
_update_session_stats_after_turn(row, user_id, topic, tutor_status, hint_policy, steps_used_before_reply, mastery_delta) ==
    LET attempts0 == IF row = <<>> THEN 0 ELSE row[1].attempts
        solved0 == IF row = <<>> THEN 0 ELSE row[1].solved_count
        hint0 == IF row = <<>> THEN 0 ELSE row[1].hint_count
        avg0 == IF row = <<>> THEN <<>> ELSE row[1].avg_steps_to_solve
        prev_delta == IF row = <<>> THEN <<>> ELSE row[1].mastery_delta
        is_solved == tutor_status = "SOLVED"
        solved == IF is_solved THEN solved0 + 1 ELSE solved0
        steps == steps_to_solve(steps_used_before_reply)
    IN  <<[user_id |-> user_id,
           topic |-> topic,
           attempts |-> attempts0 + 1,
           solved_count |-> solved,
           avg_steps_to_solve |->
               IF is_solved THEN running_avg(avg0, solved, steps) ELSE avg0,
           hint_count |-> IF _hint_is_high(hint_policy) THEN hint0 + 1 ELSE hint0,
           mastery_delta |-> IF mastery_delta = <<>> THEN prev_delta ELSE mastery_delta]>>

\* --------------------------------------------------- agents/retry_logic.py
\* Text is a sequence of one-character strings; str.lower() on the letters
\* that occur in the failure details below.
lower(msg) ==
    [i \in 1..Len(msg) |->
        IF msg[i] = "R" THEN "r"
        ELSE IF msg[i] = "C" THEN "c"
        ELSE IF msg[i] = "S" THEN "s"
        ELSE msg[i]]

\* sub in msg
contains(msg, sub) ==
    \E i \in 0..(Len(msg) - Len(sub)) : \A j \in 1..Len(sub) : msg[i + j] = sub[j]

\* A variant of rate_limit_or_capacity that takes every SDKError for a
\* rate-limit failure.
any_sdk_error(e_str) == TRUE

\* msg = str(e).lower(); "429" in msg or "rate" in msg or "capacity" in msg
rate_limit_or_capacity(e_str) ==
    LET msg == lower(e_str) IN
    \/ contains(msg, <<"4", "2", "9">>)
    \/ contains(msg, <<"r", "a", "t", "e">>)
    \/ contains(msg, <<"c", "a", "p", "a", "c", "i", "t", "y">>)

\* A variant of retries_exhausted that allows one retry more.
one_more_retry(attempt, max_retries) == attempt > max_retries + 1

\* if attempt > max_retries: raise
retries_exhausted(attempt, max_retries) == attempt > max_retries

RECURSIVE Pow2(_)
Pow2(n) == IF n = 0 THEN 1 ELSE 2 * Pow2(n - 1)

\* A variant of backoff_delay without the cap.
uncapped_delay(base_delay, max_delay, attempt) == base_delay * Pow2(attempt - 1)

\* delay = min(max_delay, base_delay * (2 ** (attempt - 1))), in milliseconds
backoff_delay(base_delay, max_delay, attempt) ==
    Min(max_delay, base_delay * Pow2(attempt - 1))

\* jitter = random.uniform(0, delay * 0.3): the ends and the middle
jitters(delay) == {0, (3 * delay) \div 20, (3 * delay) \div 10}

\* What one invocation of fn can do: return the response, raise an SDKError
\* (str(e) as given), or raise something that is not an SDKError.
FnOutcome(type, detail) == [type |-> type, detail |-> detail]

Status429 == <<"S", "t", "a", "t", "u", "s", " ", "4", "2", "9">>
RateLimit == <<"R", "a", "t", "e", " ", "l", "i", "m", "i", "t">>
Capacity == <<"n", "o", " ", "c", "a", "p", "a", "c", "i", "t", "y">>
Status401 == <<"S", "t", "a", "t", "u", "s", " ", "4", "0", "1">>
TimedOut == <<"t", "i", "m", "e", "d", " ", "o", "u", "t">>

SDKErrors ==
    {FnOutcome("SDKError", d) : d \in {Status429, RateLimit, Capacity, Status401}}
OtherErrors == {FnOutcome("OtherError", TimedOut)}
Response == FnOutcome("ok", <<>>)
NoOutcome == FnOutcome("none", <<>>)

\* ------------------------------------------------------- agents/planner.py
VALID_MODE == {"reinforce", "advance", "transfer"}
VALID_QTYPE == {"recall", "apply", "transfer", "explain", "mixed"}
VALID_HINT == {"high", "medium", "low"}

\* PlannerOutput(): the field defaults of the pydantic model.
PlannerOutput ==
    [mode |-> "reinforce",
     target_skills |-> <<>>,
     question_type |-> "apply",
     difficulty |-> 50,
     hint_policy |-> "medium",
     goal |-> "Consolidate recent learning",
     needed_help |-> FALSE,
     context_tag |-> None]

\* Texts the planning model may answer with, field by field as _parse_planner
\* reads them (a field the text lacks or garbles is "" / an invalid value).
PlannerTexts ==
    [rp1 |-> [mode |-> "advance", target_skills |-> <<"k1">>,
              question_type |-> "explain", difficulty |-> <<120>>,
              hint_policy |-> "high", goal |-> "g1",
              needed_help |-> "true", context_tag |-> "example"],
     rp2 |-> [mode |-> "bogus", target_skills |-> <<"k1", "k2", "k3", "k4">>,
              question_type |-> "quiz", difficulty |-> <<>>,
              hint_policy |-> "low", goal |-> "g2",
              needed_help |-> "no", context_tag |-> "none"],
     rp3 |-> [mode |-> "transfer", target_skills |-> <<>>,
              question_type |-> "mixed", difficulty |-> <<3>>,
              hint_policy |-> "none", goal |-> "",
              needed_help |-> "1", context_tag |-> "null"]]

\* A variant of _parse_planner that takes the fields as the text gives them.
parse_without_validation(text) ==
    [mode |-> text.mode,
     target_skills |-> text.target_skills,
     question_type |-> text.question_type,
     difficulty |-> IF text.difficulty = <<>> THEN 50 ELSE text.difficulty[1],
     hint_policy |-> text.hint_policy,
     goal |-> text.goal,
     needed_help |-> text.needed_help \in {"true", "1", "yes"},
     context_tag |-> text.context_tag]

_parse_planner(text) ==
    LET out == PlannerOutput
        difficulty == IF text.difficulty = <<>> THEN out.difficulty
                      ELSE text.difficulty[1]
    IN  [mode |-> IF text.mode \in VALID_MODE THEN text.mode ELSE out.mode,
         target_skills |->
             IF text.target_skills = <<>> THEN out.target_skills
             ELSE SubSeq(text.target_skills, 1, Min(3, Len(text.target_skills))),
         question_type |-> IF text.question_type \in VALID_QTYPE
                           THEN text.question_type ELSE out.question_type,
         difficulty |-> Max(10, Min(95, difficulty)),
         hint_policy |-> IF text.hint_policy \in VALID_HINT
                         THEN text.hint_policy ELSE out.hint_policy,
         goal |-> IF text.goal = "" THEN out.goal ELSE text.goal,
         needed_help |-> text.needed_help \in {"true", "1", "yes"},
         context_tag |-> IF text.context_tag \in {"none", "null", ""}
                         THEN None ELSE text.context_tag]

\* How one call of the planning capability ends: an exception that is not an
\* SDKError leaves call_planner_agent ("raise"); an SDKError (retries
\* exhausted or a non-transient failure) is caught there and answered with
\* PlannerOutput(); otherwise the text is parsed.
PlannerOutcomes == {"raise", "sdk_error", "rp1"}

call_planner_agent(outcome) ==
    IF outcome = "sdk_error" THEN PlannerOutput
    ELSE _parse_planner(PlannerTexts[outcome])

\* new_plan_obj.model_dump() with topic, steps_used, step_budget set on it.
plan_of(out, topic, step_budget, refresh_reason) ==
    [topic |-> topic,
     mode |-> out.mode,
     target_skills |-> out.target_skills,
     question_type |-> out.question_type,
     difficulty |-> out.difficulty,
     hint_policy |-> out.hint_policy,
     goal |-> out.goal,
     needed_help |-> out.needed_help,
     context_tag |-> out.context_tag,
     steps_used |-> 0,
     step_budget |-> step_budget,
     refresh_reason |-> refresh_reason]

\* ------------------------------------------------------ agents/learning.py
LearningExtract == [skills |-> <<>>, reason |-> "Solved via Socratic dialogue"]

LearningOutcomes == {"raise", "sdk_error", "lx1"}

call_learning_agent(outcome) ==
    IF outcome = "sdk_error" THEN LearningExtract
    ELSE [skills |-> <<"k1">>, reason |-> "r1"]

\* ------------------------------------------------------ agents/socratic.py
RawReply(status, topic_shift, new_topic, goal_shift, new_goal) ==
    [status |-> status, topic_shift |-> topic_shift, new_topic |-> new_topic,
     goal_shift |-> goal_shift, new_goal |-> new_goal]

\* Replies of the dialogue model as parsed line by line, before the safety clamp.
RawReplies ==
    {RawReply(st, FALSE, None, FALSE, None) : st \in {"ONGOING", "SOLVED", "GIVE_UP"}}
    \cup {RawReply("ONGOING", TRUE, "t2", FALSE, None)}
    \cup {RawReply(st, FALSE, None, TRUE, "g3") : st \in {"ONGOING", "SOLVED"}}
    \cup {RawReply("ONGOING", TRUE, "t2", TRUE, "g3"),
          RawReply("ONGOING", TRUE, None, FALSE, None),
          RawReply("DONE", FALSE, "t2", FALSE, "g3")}

\* The reply call_socratic_agent answers an SDKError with.
DegradedReply ==
    [status |-> "ONGOING",
     tutor_message |-> "I had a technical issue generating a reply",
     expected_student_action |-> "ASK_QUESTION",
     topic_shift |-> FALSE, new_topic |-> None,
     goal_shift |-> FALSE, new_goal |-> None]

\* A variant of clamp_reply that lets a goal shift stand beside a topic shift.
reply_without_exclusion(raw) ==
    [status |-> IF raw.status \in {"ONGOING", "SOLVED", "GIVE_UP"}
                THEN raw.status ELSE "ONGOING",
     tutor_message |-> "msg",
     expected_student_action |-> "ASK_QUESTION",
     topic_shift |-> raw.topic_shift,
     new_topic |-> IF raw.topic_shift THEN raw.new_topic ELSE None,
     goal_shift |-> raw.goal_shift,
     new_goal |-> IF raw.goal_shift THEN raw.new_goal ELSE None]

\* The safety clamp and the SocraticReply built from the parsed fields.
clamp_reply(raw) ==
    LET goal_shift == IF raw.topic_shift THEN FALSE ELSE raw.goal_shift
    IN  [status |-> IF raw.status \in {"ONGOING", "SOLVED", "GIVE_UP"}
                    THEN raw.status ELSE "ONGOING",
         tutor_message |-> "msg",
         expected_student_action |-> "ASK_QUESTION",
         topic_shift |-> raw.topic_shift,
         new_topic |-> IF raw.topic_shift THEN raw.new_topic ELSE None,
         goal_shift |-> goal_shift,
         new_goal |-> IF goal_shift THEN raw.new_goal ELSE None]

\* How the dialogue call ends, seen from handle_student_message: "raise" is an
\* exception that is not an SDKError; "sdk_error" is an SDKError out of
\* call_with_retry (retries exhausted, or not a rate-limit failure), which
\* call_socratic_agent catches and answers with DegradedReply.
DialogueOutcomes ==
    {<<"raise">>, <<"sdk_error">>} \cup {<<"ok", r>> : r \in RawReplies}

call_socratic_agent(outcome) ==
    IF outcome[1] = "sdk_error" THEN DegradedReply ELSE clamp_reply(outcome[2])

\* What call_socratic_agent can return: <<how the call ended, the reply>>.
DialogueReturns ==
    {<<d[1], call_socratic_agent(d)>> : d \in DialogueOutcomes \ {<<"raise">>}}

\* ------------------------------------------- handle_student_message, pieces
\* (student_message after strip, force_refresh).  A forced call with a
\* non-empty message runs like the forced call with the empty one.
Inputs == {<<"", FALSE>>, <<"", TRUE>>, <<"/cmd", FALSE>>, <<"/cmd", TRUE>>,
           <<"text", FALSE>>}

\* A row of interactions: the columns the engine reads back (MAX(turn_index))
\* and the speaker; content, status and hint_policy are written once and only
\* read to build prompts and fairness reports.
Interaction(turn_index, speaker) ==
    [turn_index |-> turn_index, speaker |-> speaker]

Reply(status, action, tutor_message, new_session_id) ==
    [status |-> status, action |-> action, tutor_message |-> tutor_message,
     new_session_id |-> new_session_id]

\* A variant of reply_of that answers with the handler's error reply.
error_reply(sos_reply) ==
    Reply("ONGOING", "ASK_QUESTION", "Model error (rate limit). Try again.", 0)

reply_of(sos_reply) ==
    Reply(sos_reply.status, sos_reply.expected_student_action,
          sos_reply.tutor_message, 0)

\* The repository writes of one call of the handler, in program order, by the
\* branch it takes: the table written, "new_session_plan" for the plan of the
\* session a topic shift creates.
turn_writes(branch, learning) ==
    LET opening == <<"interactions", "session_plans">>
    IN  IF branch = "ignored" THEN <<>>
        ELSE IF branch = "dialogue_error" THEN opening
        ELSE IF branch = "topic_shift"
             THEN opening \o <<"interactions", "sessions", "new_session_plan">>
        ELSE IF branch = "goal_shift"
             THEN opening \o <<"session_plans", "interactions">>
        ELSE IF branch = "solved" /\ learning # "raise"
             THEN opening \o <<"interactions", "session_stats", "progress_snapshots",
                               "student_skills", "student_topics", "session_plans">>
        ELSE opening \o <<"interactions", "session_stats", "session_plans">>

Trace(session_id, branch, input, dialogue, learning, planner_calls, active_plan, refresh, turns_since, reply) ==
    [op |-> "handle_student_message", session_id |-> session_id,
     branch |-> branch, input |-> input,
     dialogue |-> dialogue, learning |-> learning,
     planner_calls |-> planner_calls, active_plan |-> active_plan,
     refresh |-> refresh, turns_since |-> turns_since,
     reply |-> reply,
     writes |-> turn_writes(branch, learning),
     new_topic |-> None, new_goal |-> None, request |-> <<>>]

\* Step 0: empty input (unless a refresh is forced) and commands are ignored.
is_ignored(student_message, force_refresh) ==
    IF student_message = "" THEN ~force_refresh
    ELSE student_message = "/cmd"

\* Some input passes step 0; the branches below it that never read the
\* message or the flag again run the same for every such input.
SomeInputAccepted == \E input \in Inputs : ~is_ignored(input[1], input[2])

\* Steps 1-3: what the handler has computed when it calls the dialogue agent.
turn_context(user_id, session_id) ==
    LET session == sessions[session_id]
        real_mastery == get_topic_mastery(user_id, session.topic)
        mastery == IF has_override(user_id, session.topic)
                   THEN get_override(user_id, session.topic) ELSE real_mastery
        target == IF session.difficulty_mode = "manual"
                  THEN session.manual_target_difficulty
                  ELSE target_from_mastery(mastery)
        turn_index == get_next_turn_index(session_id)
    IN  [turn_index |-> turn_index,
         student_interaction |->
             Interaction(turn_index, "student"),
         session |-> session,
         mastery |-> mastery,
         target |-> target,
         plan |-> ensure_plan(get_session_plan(session_id), session.topic,
                              mastery, target)]

\* The branch the handler takes on a reply of the dialogue agent.
branch_of(sos_reply) ==
    IF sos_reply.topic_shift /\ sos_reply.new_topic # None THEN "topic_shift"
    ELSE IF sos_reply.goal_shift /\ sos_reply.new_goal # None THEN "goal_shift"
    ELSE IF sos_reply.status = "SOLVED" THEN "solved"
    ELSE "not_solved"

\* A variant of tutor_interaction_of that logs the reply as a student row.
tutor_logged_as_student(ctx, sos_reply) ==
    Interaction(ctx.turn_index + 1, "student")

tutor_interaction_of(ctx, sos_reply) ==
    Interaction(ctx.turn_index + 1, "tutor")

\* A variant of needs_corrective that re-plans after every SOLVED turn.
always_corrective(next_plan, just_solved_goal) == TRUE

\* if next_plan.get("goal") == just_solved_goal: one corrective planner call.
needs_corrective(next_plan, just_solved_goal) == next_plan.goal = just_solved_goal

\* refresh = force_refresh or (plan["steps_used"] >= step_budget)
refresh_due(plan, force_refresh) ==
    force_refresh \/ plan.steps_used >= plan.step_budget

\* The plan a SOLVED turn persists when skill extraction raised: the plan as
\* loaded, its step counter neither incremented nor reset.
plan_after_learning_error(plan) == plan

\* A variant of next_plan_after_solved that throws the corrective plan away.
next_plan_without_corrective(plan, active_plan, topic, p1, p2) ==
    IF p1 = "raise" THEN [plan EXCEPT !.steps_used = 0]
    ELSE plan_of(call_planner_agent(p1), topic, DefaultStepBudget, Absent)

\* The plan a SOLVED turn persists once skills were extracted: the planner's
\* next plan (the current plan, counter reset, when the planner raises), and
\* one corrective call when its goal repeats the solved one.
next_plan_after_solved(plan, active_plan, topic, p1, p2) ==
    LET reset == [plan EXCEPT !.steps_used = 0]
        first == IF p1 = "raise" THEN reset
                 ELSE plan_of(call_planner_agent(p1), topic, DefaultStepBudget, Absent)
    IN  IF needs_corrective(first, active_plan.goal)
        THEN IF p2 = "raise" THEN first
             ELSE plan_of(call_planner_agent(p2), topic, DefaultStepBudget, Absent)
        ELSE first

\* The outcomes the corrective call can have; where no corrective call is
\* made there is nothing to choose.
second_outcomes(plan, active_plan, topic, p1, planners) ==
    LET reset == [plan EXCEPT !.steps_used = 0]
        first == IF p1 = "raise" THEN reset
                 ELSE plan_of(call_planner_agent(p1), topic, DefaultStepBudget, Absent)
    IN  IF needs_corrective(first, active_plan.goal) THEN planners
        ELSE {"raise"}

planner_calls_after_solved(plan, active_plan, topic, p1, p2) ==
    LET reset == [plan EXCEPT !.steps_used = 0]
        first == IF p1 = "raise" THEN reset
                 ELSE plan_of(call_planner_agent(p1), topic, DefaultStepBudget, Absent)
    IN  IF needs_corrective(first, active_plan.goal)
        THEN <<<<"learning.reason", p1>>, <<"avoid_repeat_goal", p2>>>>
        ELSE <<<<"learning.reason", p1>>>>

\* A variant of plan_in_hand that reads the plan again before writing it.
plan_read_again(plan, persisted) ==
    IF persisted = <<>> THEN plan ELSE persisted[1]

\* The plan a turn carries across its external calls: the dict loaded and
\* ensured before the dialogue call; what session_plans holds by the time the
\* turn writes is not read.
plan_in_hand(plan, persisted) == plan

\* A variant of tutor_turn_index that asks the repository for the next index.
tutor_index_read_again(turn_index, rows) == MaxTurnIndex(rows) + 1

\* turn_index=turn_index + 1 on the index the student's turn was given; the
\* rows the session has by then are not read.
tutor_turn_index(turn_index, rows) == turn_index + 1

\* plan["steps_used"] = int(plan.get("steps_used", 0)) + 1
stepped_plan(plan) == [plan EXCEPT !.steps_used = plan.steps_used + 1]

\* A variant of goal_shifted_plan that only swaps the goal in.
goal_only_plan(plan, new_goal, topic) == [plan EXCEPT !.goal = new_goal]

\* The plan the goal-shift hook persists.
goal_shifted_plan(plan, new_goal, topic) ==
    [plan EXCEPT !.goal = new_goal,
                 !.mode = "advance",
                 !.question_type = "explain",
                 !.target_skills = <<>>,
                 !.context_tag = "user_request",
                 !.needed_help = FALSE,
                 !.steps_used = 0,
                 !.topic = topic]

\* A variant of plan_after_step that leaves the counter where it is when the
\* planner raises.
plan_after_step_keeping_counter(plan, topic, force_refresh, p1) ==
    LET stepped == stepped_plan(plan)
    IN  IF refresh_due(stepped, force_refresh) /\ p1 # "raise"
        THEN plan_of(call_planner_agent(p1), topic, DefaultStepBudget, Absent)
        ELSE stepped

\* The plan a non-SOLVED normal turn persists: the counter incremented, and
\* when a refresh is due the planner's plan, or the old plan with the counter
\* reset when the planner raises.
plan_after_step(plan, topic, force_refresh, p1) ==
    LET stepped == stepped_plan(plan)
    IN  IF refresh_due(stepped, force_refresh)
        THEN IF p1 = "raise" THEN [stepped EXCEPT !.steps_used = 0]
             ELSE plan_of(call_planner_agent(p1), topic, DefaultStepBudget, Absent)
        ELSE stepped

\* ------------------------------------------------------------------ actions
Session(user_id, topic) ==
    [user_id |-> user_id, topic |-> topic,
     difficulty_mode |-> "auto", manual_target_difficulty |-> "medium"]

\* The input is recorded for the branches that read it (step 0 and the
\* refresh decision of a non-SOLVED turn).
Unread == <<"text", FALSE>>

NoTrace ==
    [op |-> "none", session_id |-> 0, branch |-> "none", input |-> <<"none", FALSE>>,
     dialogue |-> "none", learning |-> "none", planner_calls |-> <<>>,
     active_plan |-> <<>>, refresh |-> "none", turns_since |-> <<>>,
     reply |-> Reply("none", "none", "none", 0),
     writes |-> <<>>, new_topic |-> None, new_goal |-> None, request |-> <<>>]

\* No run of call_with_retry under observation.
NoRetry ==
    [pc |-> "idle", max_retries |-> 0, base_delay |-> 0, max_delay |-> 0,
     attempt |-> 0, invocations |-> 0, sleeps |-> <<>>,
     outcome |-> NoOutcome, result |-> <<"none", NoOutcome>>]

\* Callers that can have a call under way at the same time (two requests
\* of the web front end, or two processes on the same database file).
Procs == {1, 2}

\* A caller with no call under way.
NotInFlight ==
    [pc |-> "idle", op |-> "none", session_id |-> 0, user_id |-> "none",
     turn_index |-> 0, plan |-> <<>>, request |-> <<>>, outcome |-> "none",
     overtaken |-> {}, overwritten |-> <<>>]

NoneInFlight == [p \in Procs |-> NotInFlight]

\* No function application under observation.
NoProbe == [fn |-> "none", m |-> 0, m2 |-> 0, target |-> "none", result |-> <<>>]

\* The database after save_user and save_session of the first session.
AppInit ==
    /\ sessions = <<Session("u1", "t1")>>
    /\ interactions = [sid \in SessionIds |-> <<>>]
    /\ session_plans = [sid \in SessionIds |-> <<>>]
    /\ session_stats = [sid \in SessionIds |-> <<>>]
    /\ progress_snapshots = <<>>
    /\ student_skills = [k \in Users \X Topics \X SkillIds |-> <<>>]
    /\ student_topics = [k \in Users \X Topics |-> <<>>]
    /\ MASTERY_OVERRIDE = [k \in Users \X Topics |-> <<>>]
    /\ last = NoTrace
    /\ since_refresh = [sid \in SessionIds |-> <<>>]
    /\ solve_log = [sid \in SessionIds |-> <<>>]
    /\ calls = 0

Init ==
    /\ AppInit
    /\ retry = NoRetry
    /\ probe = NoProbe
    /\ in_flight = NoneInFlight

\* handle_student_message returning at step 0.
IgnoredInputWith(limit) ==
    /\ calls < limit
    /\ \E session_id \in 1..Len(sessions), input \in Inputs :
        /\ is_ignored(input[1], input[2])
        /\ last' = Trace(session_id, "ignored", input, "none", "none", <<>>,
                         <<>>, "none", <<>>,
                         IF input[1] = ""
                         THEN Reply("ONGOING", "ASK_QUESTION", "Send an answer.", 0)
                         ELSE Reply("ONGOING", "NOOP", "Command received.", 0))
    /\ calls' = calls + 1
    /\ UNCHANGED <<retry, probe, in_flight>>
    /\ UNCHANGED <<repo, MASTERY_OVERRIDE, solve_log, since_refresh>>

\* handle_student_message whose dialogue call raises into the handler.
DialogueRaisesWith(limit) ==
    /\ calls < limit
    /\ SomeInputAccepted
    /\ \E user_id \in Users, session_id \in 1..Len(sessions) :
        LET ctx == turn_context(user_id, session_id) IN
        /\ interactions' = [interactions EXCEPT ![session_id] =
                               Append(@, ctx.student_interaction)]
        /\ session_plans' = [session_plans EXCEPT ![session_id] = <<ctx.plan>>]
        /\ last' = Trace(session_id, "dialogue_error", Unread, "raise", "none",
                         <<>>, <<ctx.plan>>, "none", <<>>,
                         Reply("ONGOING", "ASK_QUESTION",
                               "Model error (rate limit). Try again.", 0))
    /\ calls' = calls + 1
    /\ UNCHANGED <<retry, probe, in_flight>>
    /\ UNCHANGED <<sessions, session_stats, progress_snapshots, student_skills,
                   student_topics, MASTERY_OVERRIDE, solve_log, since_refresh>>

\* handle_student_message, topic-shift hook: a new session with its own plan.
TopicShiftUsing(limit, planners) ==
    /\ calls < limit
    /\ Len(sessions) < MaxSessions
    /\ SomeInputAccepted
    /\ \E user_id \in Users, session_id \in 1..Len(sessions),
          r \in DialogueReturns, p1 \in planners :
        LET ctx == turn_context(user_id, session_id)
            sos_reply == r[2]
            new_topic == sos_reply.new_topic
            new_session_id == Len(sessions) + 1
            new_real_mastery == get_topic_mastery(user_id, new_topic)
            new_mastery == IF has_override(user_id, new_topic)
                           THEN get_override(user_id, new_topic)
                           ELSE new_real_mastery
            new_target == target_from_mastery(new_mastery)
            new_plan == IF p1 = "raise"
                        THEN ensure_plan(<<>>, new_topic, new_mastery, new_target)
                        ELSE plan_of(call_planner_agent(p1), new_topic,
                                     DefaultStepBudget, Absent)
        IN
        /\ branch_of(sos_reply) = "topic_shift"
        /\ interactions' = [interactions EXCEPT ![session_id] =
               @ \o <<ctx.student_interaction,
                      tutor_interaction_of(ctx, sos_reply)>>]
        /\ sessions' = Append(sessions, Session(user_id, new_topic))
        /\ session_plans' = [session_plans EXCEPT ![session_id] = <<ctx.plan>>,
                                                  ![new_session_id] = <<new_plan>>]
        /\ last' = [Trace(session_id, "topic_shift", Unread, r[1], "none",
                          <<<<"topic_shift_new_session", p1>>>>, <<ctx.plan>>,
                          "none", <<>>,
                          Reply(sos_reply.status, sos_reply.expected_student_action,
                                sos_reply.tutor_message, new_session_id))
                       EXCEPT !.new_topic = new_topic]
    /\ calls' = calls + 1
    /\ UNCHANGED <<retry, probe, in_flight>>
    /\ UNCHANGED <<session_stats, progress_snapshots, student_skills,
                   student_topics, MASTERY_OVERRIDE, solve_log, since_refresh>>

TopicShiftWith(limit) == TopicShiftUsing(limit, PlannerOutcomes)

\* handle_student_message, goal-shift hook: the plan is rewritten in place.
GoalShiftWith(limit, returns) ==
    /\ calls < limit
    /\ SomeInputAccepted
    /\ \E user_id \in Users, session_id \in 1..Len(sessions), r \in returns :
        LET ctx == turn_context(user_id, session_id)
            sos_reply == r[2]
            plan == goal_shifted_plan(ctx.plan, sos_reply.new_goal, ctx.session.topic)
        IN
        /\ branch_of(sos_reply) = "goal_shift"
        /\ session_plans' = [session_plans EXCEPT ![session_id] = <<plan>>]
        /\ interactions' = [interactions EXCEPT ![session_id] =
               @ \o <<ctx.student_interaction,
                      tutor_interaction_of(ctx, sos_reply)>>]
        /\ last' = [Trace(session_id, "goal_shift", Unread, r[1], "none",
                          <<>>, <<ctx.plan>>, "none", <<>>, reply_of(sos_reply))
                       EXCEPT !.new_goal = sos_reply.new_goal]
    /\ calls' = calls + 1
    /\ UNCHANGED <<retry, probe, in_flight>>
    /\ UNCHANGED <<sessions, session_stats, progress_snapshots, student_skills,
                   student_topics, MASTERY_OVERRIDE, solve_log, since_refresh>>

\* handle_student_message, normal turn answered SOLVED.
NormalSolvedWith(limit, returns, learnings, planners) ==
    /\ calls < limit
    /\ SomeInputAccepted
    /\ \E user_id \in Users, session_id \in 1..Len(sessions),
          r \in returns, l \in learnings :
        LET ctx == turn_context(user_id, session_id)
            sos_reply == r[2]
            active_plan == ctx.plan
            topic == ctx.session.topic
            current == get_topic_mastery(user_id, topic)
            delta_for_stats == compute_delta(current)
            learning == call_learning_agent(l)
            snapshot == [user_id |-> user_id, topic |-> topic,
                         mastery_delta |-> delta_for_stats,
                         reason |-> learning.reason, skills |-> learning.skills]
        IN
        /\ branch_of(sos_reply) = "solved"
        /\ interactions' = [interactions EXCEPT ![session_id] =
               @ \o <<ctx.student_interaction,
                      tutor_interaction_of(ctx, sos_reply)>>]
        /\ session_stats' = [session_stats EXCEPT ![session_id] =
               _update_session_stats_after_turn(get_session_stats(session_id),
                   user_id, topic, sos_reply.status, active_plan.hint_policy,
                   ctx.plan.steps_used, <<delta_for_stats>>)]
        /\ solve_log' = [solve_log EXCEPT ![session_id] =
               Append(@, steps_to_solve(ctx.plan.steps_used))]
        /\ IF l = "raise"
           THEN /\ session_plans' = [session_plans EXCEPT ![session_id] =
                                        <<plan_after_learning_error(ctx.plan)>>]
                /\ last' = Trace(session_id, "solved", Unread, r[1], l, <<>>,
                                 <<active_plan>>, "none", <<>>, reply_of(sos_reply))
                /\ UNCHANGED <<progress_snapshots, student_skills, student_topics>>
           ELSE \E p1 \in planners :
                \E p2 \in second_outcomes(ctx.plan, active_plan, topic, p1, planners) :
                /\ progress_snapshots' = Append(progress_snapshots, snapshot)
                /\ student_skills' = upsert_skills(student_skills, user_id, topic,
                                                   learning.skills, FALSE, None)
                /\ student_topics' = update_topic_difficulty(user_id, topic, FALSE)
                /\ session_plans' = [session_plans EXCEPT ![session_id] =
                       <<next_plan_after_solved(ctx.plan, active_plan, topic, p1, p2)>>]
                /\ last' = Trace(session_id, "solved", Unread, r[1], l,
                       planner_calls_after_solved(ctx.plan, active_plan, topic, p1, p2),
                       <<active_plan>>, "none", <<>>, reply_of(sos_reply))
    /\ calls' = calls + 1
    /\ UNCHANGED <<retry, probe, in_flight>>
    /\ UNCHANGED <<sessions, MASTERY_OVERRIDE, since_refresh>>

\* handle_student_message, normal turn not answered SOLVED (ONGOING, GIVE_UP,
\* and the degraded reply call_socratic_agent gives on an SDKError).
NormalNotSolvedWith(limit, inputs, returns, planners) ==
    /\ calls < limit
    /\ \E user_id \in Users, session_id \in 1..Len(sessions),
          input \in inputs, r \in returns :
        LET ctx == turn_context(user_id, session_id)
            sos_reply == r[2]
            active_plan == ctx.plan
            topic == ctx.session.topic
            refresh == refresh_due(stepped_plan(ctx.plan), input[2])
        IN
        \E p1 \in (IF refresh THEN planners ELSE {"raise"}) :
        /\ ~is_ignored(input[1], input[2])
        /\ branch_of(sos_reply) = "not_solved"
        /\ interactions' = [interactions EXCEPT ![session_id] =
               @ \o <<ctx.student_interaction,
                      tutor_interaction_of(ctx, sos_reply)>>]
        /\ session_stats' = [session_stats EXCEPT ![session_id] =
               _update_session_stats_after_turn(get_session_stats(session_id),
                   user_id, topic, sos_reply.status, active_plan.hint_policy,
                   ctx.plan.steps_used, <<>>)]
        /\ session_plans' = [session_plans EXCEPT ![session_id] =
               <<plan_after_step(ctx.plan, topic, input[2], p1)>>]
        /\ since_refresh' = [since_refresh EXCEPT ![session_id] =
               IF refresh
               THEN IF input[2] THEN <<>>
                    ELSE <<0, plan_after_step(ctx.plan, topic, input[2], p1).step_budget>>
               ELSE IF @ = <<>> THEN <<>> ELSE <<@[1] + 1, @[2]>>]
        /\ last' = Trace(session_id, "not_solved", input, r[1], "none",
               IF refresh THEN <<<<"checkpoint_refresh", p1>>>> ELSE <<>>,
               <<active_plan>>,
               IF ~refresh THEN "none"
               ELSE IF input[2] THEN "forced" ELSE "step_budget",
               IF refresh /\ ~input[2] THEN since_refresh[session_id] ELSE <<>>,
               reply_of(sos_reply))
    /\ calls' = calls + 1
    /\ UNCHANGED <<retry, probe, in_flight>>
    /\ UNCHANGED <<sessions, progress_snapshots, student_skills, student_topics,
                   MASTERY_OVERRIDE, solve_log>>

\* -------------------------------------------- app/learning/plan_manager.py
Reasons == {"MOVE"}

RefreshTrace(session_id, branch, reason, step_budget, p1) ==
    [NoTrace EXCEPT !.op = "refresh_plan", !.session_id = session_id,
                    !.branch = branch, !.planner_calls = <<<<reason, p1>>>>,
                    !.request = <<step_budget>>,
                    !.writes = IF branch = "saved" THEN <<"session_plans">> ELSE <<>>]

\* A variant of refreshed_plan that merges: the previous plan's hint policy is
\* kept where there was a previous plan.
merged_plan(prev, out, topic, step_budget, reason) ==
    IF prev = <<>> THEN plan_of(out, topic, step_budget, reason)
    ELSE [plan_of(out, topic, step_budget, reason)
             EXCEPT !.hint_policy = prev[1].hint_policy]

\* plan = plan_obj.model_dump() with topic, steps_used, step_budget and
\* refresh_reason set on it; prev only feeds the planner's prompt.
refreshed_plan(prev, out, topic, step_budget, reason) ==
    plan_of(out, topic, step_budget, reason)

\* refresh_plan: the planner's plan replaces the session's plan; an exception
\* of the planner that is not an SDKError leaves refresh_plan unhandled.
RefreshPlanWith(limit, planners) ==
    /\ calls < limit
    /\ \E user_id \in Users, session_id \in 1..Len(sessions), reason \in Reasons,
          step_budget \in StepBudgets, p1 \in planners :
        LET session == sessions[session_id] IN
        /\ IF p1 = "raise"
           THEN UNCHANGED <<session_plans, since_refresh>>
           ELSE /\ session_plans' = [session_plans EXCEPT ![session_id] =
                       <<refreshed_plan(get_session_plan(session_id),
                                        call_planner_agent(p1), session.topic,
                                        step_budget, reason)>>]
                /\ since_refresh' = [since_refresh EXCEPT ![session_id] = <<>>]
        /\ last' = RefreshTrace(session_id, IF p1 = "raise" THEN "raised" ELSE "saved",
                                reason, step_budget, p1)
    /\ calls' = calls + 1
    /\ UNCHANGED <<retry, probe, in_flight>>
    /\ UNCHANGED <<sessions, interactions, session_stats, progress_snapshots,
                   student_skills, student_topics, MASTERY_OVERRIDE, solve_log>>

RefreshPlan == RefreshPlanWith(MaxCalls, PlannerOutcomes)

\* plan["steps_used"] = int(plan.get("step_budget", 6)); refresh_reason = mode
advanced_plan(plan, mode) ==
    [plan EXCEPT !.steps_used = plan.step_budget, !.refresh_reason = mode]

\* advance_session_plan: "/move means force refresh", the counter is set to
\* the budget so that the next turn refreshes.
AdvanceSessionPlan ==
    /\ calls < MaxCalls
    /\ \E session_id \in 1..Len(sessions) :
        /\ get_session_plan(session_id) # <<>>
        /\ session_plans' = [session_plans EXCEPT ![session_id] =
               <<advanced_plan(get_session_plan(session_id)[1], "SKIP")>>]
        /\ since_refresh' = [since_refresh EXCEPT ![session_id] = <<>>]
        /\ last' = [NoTrace EXCEPT !.op = "advance_session_plan",
                                   !.session_id = session_id, !.branch = "saved"]
    /\ calls' = calls + 1
    /\ UNCHANGED <<retry, probe, in_flight>>
    /\ UNCHANGED <<sessions, interactions, session_stats, progress_snapshots,
                   student_skills, student_topics, MASTERY_OVERRIDE, solve_log>>

\* ------------------------------------------------------- the specification
IgnoredInput == IgnoredInputWith(MaxCalls)
DialogueRaises == DialogueRaisesWith(MaxCalls)
TopicShift == TopicShiftWith(MaxCalls)
GoalShift == GoalShiftWith(MaxCalls, DialogueReturns)
NormalSolved ==
    NormalSolvedWith(MaxCalls, DialogueReturns, LearningOutcomes, PlannerOutcomes)
NormalNotSolved ==
    NormalNotSolvedWith(MaxCalls, Inputs, DialogueReturns, PlannerOutcomes)

Next ==
    \/ IgnoredInput
    \/ DialogueRaises
    \/ TopicShift
    \/ GoalShift
    \/ NormalSolved
    \/ NormalNotSolved
    \/ RefreshPlan
    \/ AdvanceSessionPlan

Spec == Init /\ [][Next]_vars

\* ------------------------------------ one session, turn after turn (steps)
\* A session bootstrapped by refresh_plan with a small step budget and then
\* worked through handle_student_message alone, unforced: the runs in which
\* the step budget is used up more than once.
StepReturns ==
    {r \in DialogueReturns :
        /\ r[2].status \in {"ONGOING", "SOLVED"}
        /\ ~r[2].topic_shift
        /\ r[2].goal_shift => r[2].status = "ONGOING"}
StepLearnings == {"raise", "lx1"}
StepPlanners == {"raise", "rp1"}

StepsInit ==
    /\ sessions = <<Session("u1", "t1")>>
    /\ interactions = [sid \in SessionIds |-> <<>>]
    /\ \E p1 \in PlannerOutcomes \ {"raise"} :
        /\ session_plans = [sid \in SessionIds |->
               IF sid = 1
               THEN <<plan_of(call_planner_agent(p1), "t1", SmallBudget, "BOOTSTRAP")>>
               ELSE <<>>]
        /\ last = RefreshTrace(1, "saved", "BOOTSTRAP", SmallBudget, p1)
    /\ session_stats = [sid \in SessionIds |-> <<>>]
    /\ progress_snapshots = <<>>
    /\ student_skills = [k \in Users \X Topics \X SkillIds |-> <<>>]
    /\ student_topics = [k \in Users \X Topics |-> <<>>]
    /\ MASTERY_OVERRIDE = [k \in Users \X Topics |-> <<>>]
    /\ since_refresh = [sid \in SessionIds |-> <<>>]
    /\ solve_log = [sid \in SessionIds |-> <<>>]
    /\ calls = 0
    /\ retry = NoRetry
    /\ probe = NoProbe
    /\ in_flight = NoneInFlight

StepDialogueRaises == DialogueRaisesWith(MaxStepCalls)
StepGoalShift == GoalShiftWith(MaxStepCalls, StepReturns)
StepSolved == NormalSolvedWith(MaxStepCalls, StepReturns, StepLearnings, StepPlanners)
StepNotSolved ==
    NormalNotSolvedWith(MaxStepCalls, {<<"text", FALSE>>}, StepReturns, StepPlanners)

StepsNext ==
    \/ StepDialogueRaises
    \/ StepGoalShift
    \/ StepSolved
    \/ StepNotSolved

SpecSteps == StepsInit /\ [][StepsNext]_vars

\* ------------------------------------- calls that name an unknown session
\* Entry points called with a session_id that has no row in sessions, among
\* turns of the session that exists.  (Session ids are fresh random strings;
\* no session is created here, so an unknown id stays unknown.)
UnknownSessionIds == SessionIds \ (1..Len(sessions))

RaisedTrace(op, session_id, input, writes) ==
    [NoTrace EXCEPT !.op = op, !.session_id = session_id, !.branch = "raised",
                    !.input = input, !.writes = writes]

\* handle_student_message returning at step 0, before any lookup.
MissingSessionIgnored ==
    /\ calls < MaxStepCalls
    /\ \E session_id \in UnknownSessionIds, input \in Inputs :
        /\ is_ignored(input[1], input[2])
        /\ last' = Trace(session_id, "ignored", input, "none", "none", <<>>,
                         <<>>, "none", <<>>,
                         IF input[1] = ""
                         THEN Reply("ONGOING", "ASK_QUESTION", "Send an answer.", 0)
                         ELSE Reply("ONGOING", "NOOP", "Command received.", 0))
    /\ calls' = calls + 1
    /\ UNCHANGED <<repo, MASTERY_OVERRIDE, solve_log, since_refresh, retry, probe, in_flight>>

\* handle_student_message past step 0: the student's message is saved under
\* the next turn index of the session_id, then get_session raises KeyError,
\* which nothing in the handler catches.
MissingSessionTurn ==
    /\ calls < MaxStepCalls
    /\ \E session_id \in UnknownSessionIds, input \in Inputs :
        /\ ~is_ignored(input[1], input[2])
        /\ interactions' = [interactions EXCEPT ![session_id] =
               Append(@, Interaction(get_next_turn_index(session_id), "student"))]
        /\ last' = RaisedTrace("handle_student_message", session_id, input,
                               <<"interactions">>)
    /\ calls' = calls + 1
    /\ UNCHANGED <<sessions, session_plans, session_stats, progress_snapshots,
                   student_skills, student_topics, MASTERY_OVERRIDE, solve_log,
                   since_refresh, retry, probe, in_flight>>

\* refresh_plan: get_session is its first statement and raises KeyError.
MissingSessionRefresh ==
    /\ calls < MaxStepCalls
    /\ \E session_id \in UnknownSessionIds, step_budget \in StepBudgets :
        last' = [RaisedTrace("refresh_plan", session_id, <<"none", FALSE>>, <<>>)
                    EXCEPT !.request = <<step_budget>>]
    /\ calls' = calls + 1
    /\ UNCHANGED <<repo, MASTERY_OVERRIDE, solve_log, since_refresh, retry, probe, in_flight>>

LookupDialogueRaises == DialogueRaisesWith(MaxStepCalls)

LookupNext ==
    \/ MissingSessionIgnored
    \/ MissingSessionTurn
    \/ MissingSessionRefresh
    \/ LookupDialogueRaises

SpecLookup == Init /\ [][LookupNext]_vars

\* ------------------------------------ update_student_model_from_learning
\* The student model updated call after call: skill lists with no, one, a
\* repeated and more than five skills, help needed or not.
SkillLists == {<<>>, <<"k1">>, <<"k1", "k1">>, [i \in 1..6 |-> "k1"]}

\* for skill_id in skills[:5]
first_five(skills) == SubSeq(skills, 1, Min(5, Len(skills)))

UpdateStudentModel ==
    /\ calls < MaxSkillCalls
    /\ \E user_id \in Users, topic \in Topics, skills \in SkillLists,
          needed_help \in BOOLEAN, context_tag \in {None, "warmup"} :
        /\ student_skills' = upsert_skills(student_skills, user_id, topic,
                                           first_five(skills), needed_help,
                                           context_tag)
        /\ student_topics' = update_topic_difficulty(user_id, topic, needed_help)
        /\ last' = [NoTrace EXCEPT !.op = "update_student_model_from_learning",
                                   !.branch = "saved",
                                   !.writes = <<"student_skills", "student_topics">>,
                                   !.request = <<user_id, topic, skills, needed_help>>]
    /\ calls' = calls + 1
    /\ UNCHANGED <<sessions, interactions, session_plans, session_stats,
                   progress_snapshots, MASTERY_OVERRIDE, solve_log,
                   since_refresh, retry, probe, in_flight>>

SkillsNext == UpdateStudentModel

SpecSkills == Init /\ [][SkillsNext]_vars

\* ------------------------------------- one topic, solved over and over
\* A bootstrapped session whose every turn is answered SOLVED, skill
\* extraction failing or not: the runs in which the deltas of one
\* (user, topic) pair add up to more than 1.0.
MasterySolved == NormalSolvedWith(MaxSolves, StepReturns, StepLearnings, {"rp1"})

MasteryNext == MasterySolved

SpecMastery == StepsInit /\ [][MasteryNext]_vars

\* ------------------------------- compute_delta, target_from_mastery, ensure_plan
\* The functions of mastery applied to arguments drawn from a grid over
\* [0, 1] that also holds the thresholds of the functions: a pair of mastery
\* values m <= m2 and a target-difficulty label.
MasteryGrid == {(k * Scale) \div GridSteps : k \in 0..GridSteps}
Thresholds == {(k * Scale) \div 100 : k \in {29, 30, 36, 50, 69, 70, 75}}
MasteryInputs == MasteryGrid \cup Thresholds
TargetLabels == {"easy", "medium", "hard"}

PureInit ==
    /\ AppInit
    /\ retry = NoRetry
    /\ in_flight = NoneInFlight
    /\ \E m \in MasteryInputs, m2 \in MasteryInputs, target \in TargetLabels :
        /\ m <= m2
        /\ probe = [NoProbe EXCEPT !.m = m, !.m2 = m2, !.target = target]

ApplyComputeDelta ==
    /\ probe.fn = "none"
    /\ probe' = [probe EXCEPT !.fn = "compute_delta",
                              !.result = <<compute_delta(probe.m),
                                           compute_delta(probe.m2)>>]
    /\ UNCHANGED <<app_vars, retry, in_flight>>

ApplyTargetFromMastery ==
    /\ probe.fn = "none"
    /\ probe' = [probe EXCEPT !.fn = "target_from_mastery",
                              !.result = <<target_from_mastery(probe.m),
                                           target_from_mastery(probe.m2)>>]
    /\ UNCHANGED <<app_vars, retry, in_flight>>

\* ensure_plan(None, topic, topic_mastery, target_difficulty)
ApplyEnsurePlan ==
    /\ probe.fn = "none"
    /\ \E topic \in Topics :
        probe' = [probe EXCEPT !.fn = "ensure_plan",
                               !.result = <<ensure_plan(<<>>, topic, probe.m,
                                                        probe.target)>>]
    /\ UNCHANGED <<app_vars, retry, in_flight>>

PureNext ==
    \/ ApplyComputeDelta
    \/ ApplyTargetFromMastery
    \/ ApplyEnsurePlan

SpecPure == PureInit /\ [][PureNext]_vars

\* ------------------------------------------ the reply and the branch it takes
\* call_socratic_agent on every shape of parsed reply, and the branch
\* handle_student_message takes on what it returns.
AllRawReplies ==
    {RawReply(st, ts, nt, gs, ng) :
        st \in {"ONGOING", "SOLVED", "GIVE_UP", "DONE"}, ts \in BOOLEAN,
        nt \in {None} \cup Topics, gs \in BOOLEAN, ng \in {None, "g3"}}

BranchInit ==
    /\ AppInit
    /\ retry = NoRetry
    /\ in_flight = NoneInFlight
    /\ \E raw \in AllRawReplies :
        probe = [fn |-> "none", raw |-> raw, result |-> <<>>]

ApplyBranchOf ==
    /\ probe.fn = "none"
    /\ LET sos_reply == call_socratic_agent(<<"ok", probe.raw>>) IN
       probe' = [probe EXCEPT !.fn = "branch_of",
                              !.result = <<sos_reply, branch_of(sos_reply)>>]
    /\ UNCHANGED <<app_vars, retry, in_flight>>

BranchNext == ApplyBranchOf

SpecBranch == BranchInit /\ [][BranchNext]_vars

\* --------------------------------------------- turns under a mastery override
\* Two sessions of one user on one topic, the first in automatic difficulty
\* mode and the second saved in automatic or manual mode, worked through handle_student_message while the developer
\* override of the topic's mastery is set and cleared between the turns.
\* probe.written keeps, per (user, topic), the value last handed to
\* set_mastery_override, <<>> after clear_mastery_override.
OverrideValues == {0 - Scale \div 2, (9 * Scale) \div 10, (3 * Scale) \div 2}

SessionSettings ==
    {<<"auto", "medium">>} \cup {<<"manual", t>> : t \in TargetLabels}

OverrideReturns ==
    {r \in DialogueReturns :
        /\ r[1] = "ok"
        /\ ~r[2].topic_shift /\ ~r[2].goal_shift
        /\ r[2].status \in {"ONGOING", "SOLVED"}}

OverrideInit ==
    /\ \E s2 \in SessionSettings :
        sessions = <<Session("u1", "t1"),
                     [Session("u1", "t1") EXCEPT !.difficulty_mode = s2[1],
                                                 !.manual_target_difficulty = s2[2]]>>
    /\ interactions = [sid \in SessionIds |-> <<>>]
    /\ session_plans = [sid \in SessionIds |-> <<>>]
    /\ session_stats = [sid \in SessionIds |-> <<>>]
    /\ progress_snapshots = <<>>
    /\ student_skills = [k \in Users \X Topics \X SkillIds |-> <<>>]
    /\ student_topics = [k \in Users \X Topics |-> <<>>]
    /\ MASTERY_OVERRIDE = [k \in Users \X Topics |-> <<>>]
    /\ last = NoTrace
    /\ since_refresh = [sid \in SessionIds |-> <<>>]
    /\ solve_log = [sid \in SessionIds |-> <<>>]
    /\ calls = 0
    /\ retry = NoRetry
    /\ in_flight = NoneInFlight
    /\ probe = [fn |-> "mastery_overrides",
                written |-> [k \in Users \X Topics |-> <<>>]]

\* MASTERY_OVERRIDE[(user_id, topic)] = max(0.0, min(1.0, float(value)))
set_mastery_override(user_id, topic, value) ==
    [MASTERY_OVERRIDE EXCEPT ![<<user_id, topic>>] = <<Max(0, Min(Scale, value))>>]

\* MASTERY_OVERRIDE.pop((user_id, topic), None)
clear_mastery_override(user_id, topic) ==
    [MASTERY_OVERRIDE EXCEPT ![<<user_id, topic>>] = <<>>]

SetMasteryOverride ==
    /\ \E user_id \in Users, topic \in Topics, value \in OverrideValues :
        /\ MASTERY_OVERRIDE' = set_mastery_override(user_id, topic, value)
        /\ probe' = [probe EXCEPT !.written[<<user_id, topic>>] = <<value>>]
    /\ UNCHANGED <<repo, last, since_refresh, solve_log, calls, retry, in_flight>>

ClearMasteryOverride ==
    /\ \E user_id \in Users, topic \in Topics :
        /\ MASTERY_OVERRIDE' = clear_mastery_override(user_id, topic)
        /\ probe' = [probe EXCEPT !.written[<<user_id, topic>>] = <<>>]
    /\ UNCHANGED <<repo, last, since_refresh, solve_log, calls, retry, in_flight>>

OverrideDialogueRaises == DialogueRaisesWith(MaxOverrideCalls)
OverrideSolved ==
    NormalSolvedWith(MaxOverrideCalls, OverrideReturns, {"lx1"}, {"raise"})
OverrideNotSolved ==
    NormalNotSolvedWith(MaxOverrideCalls, {<<"text", FALSE>>}, OverrideReturns, {"raise"})

OverrideNext ==
    \/ SetMasteryOverride
    \/ ClearMasteryOverride
    \/ OverrideDialogueRaises
    \/ OverrideSolved
    \/ OverrideNotSolved

SpecOverride == OverrideInit /\ [][OverrideNext]_vars

\* ------------------------------------------ calls that overlap on a session
\* handle_student_message and refresh_plan of one session called by two
\* callers at once.  Nothing in the handler or the repository serialises the
\* calls of a session, and each statement of the repository is a transaction
\* of its own, so a call suspended in a language-model call can be overtaken.
\* A call is cut at its language-model calls; the turns followed here are
\* the normal turns not answered SOLVED (and the turns whose dialogue call
\* raises), which have the dialogue call and the checkpoint planner call.
RaceReturns ==
    {r \in DialogueReturns : r[1] = "ok" /\ r[2].status = "ONGOING"
                             /\ ~r[2].topic_shift /\ ~r[2].goal_shift}
RacePlanners == {"raise", "rp1"}

RaceInit == Init

Suspended(p, pc) == in_flight[p].pc = pc

\* Lines 157-200: the student's turn is logged at the next index, the plan is
\* loaded, ensured and saved, and the call waits for the dialogue agent.  The
\* calls it finds waiting for theirs have been overtaken by its turn.
BeginTurn(p) ==
    /\ calls < MaxRaceCalls
    /\ Suspended(p, "idle")
    /\ SomeInputAccepted
    /\ \E user_id \in Users, session_id \in 1..Len(sessions) :
        LET ctx == turn_context(user_id, session_id) IN
        /\ interactions' = [interactions EXCEPT ![session_id] =
                               Append(@, ctx.student_interaction)]
        /\ session_plans' = [session_plans EXCEPT ![session_id] = <<ctx.plan>>]
        /\ in_flight' = [q \in Procs |->
               IF q = p
               THEN [NotInFlight EXCEPT !.pc = "dialogue",
                                        !.op = "handle_student_message",
                                        !.session_id = session_id,
                                        !.user_id = user_id,
                                        !.turn_index = ctx.turn_index,
                                        !.plan = <<ctx.plan>>]
               ELSE IF in_flight[q].pc = "dialogue"
                       /\ in_flight[q].session_id = session_id
               THEN [in_flight[q] EXCEPT !.overtaken = @ \cup {ctx.turn_index}]
               ELSE in_flight[q]]
    /\ calls' = calls + 1
    /\ UNCHANGED <<sessions, session_stats, progress_snapshots, student_skills,
                   student_topics, MASTERY_OVERRIDE, last, since_refresh,
                   solve_log, retry, probe>>

\* The dialogue call raises into the handler: the error reply, nothing written.
DialogueRaisesTo(p) ==
    /\ Suspended(p, "dialogue")
    /\ in_flight' = [in_flight EXCEPT ![p].pc = "idle",
                                      ![p].outcome = "error_reply"]
    /\ UNCHANGED <<app_vars, retry, probe>>

\* Lines 310-345 and 437-466 on a reply that is not SOLVED: the tutor's turn
\* is logged, the statistics updated, the plan in hand stepped and, unless a
\* checkpoint refresh is due, saved.
DialogueReturnsTo(p) ==
    /\ Suspended(p, "dialogue")
    /\ \E r \in RaceReturns :
        LET me == in_flight[p]
            session_id == me.session_id
            sos_reply == r[2]
            plan == plan_in_hand(me.plan[1], get_session_plan(session_id))
            topic == sessions[session_id].topic
            refresh == refresh_due(stepped_plan(plan), FALSE)
        IN
        /\ interactions' = [interactions EXCEPT ![session_id] =
               Append(@, Interaction(tutor_turn_index(me.turn_index, @), "tutor"))]
        /\ session_stats' = [session_stats EXCEPT ![session_id] =
               _update_session_stats_after_turn(get_session_stats(session_id),
                   me.user_id, topic, sos_reply.status, me.plan[1].hint_policy,
                   plan.steps_used, <<>>)]
        /\ IF refresh
           THEN /\ in_flight' = [in_flight EXCEPT ![p].pc = "planner"]
                /\ UNCHANGED session_plans
           ELSE /\ session_plans' = [session_plans EXCEPT ![session_id] =
                       <<plan_after_step(plan, topic, FALSE, "raise")>>]
                /\ in_flight' = [in_flight EXCEPT
                       ![p].pc = "idle",
                       ![p].outcome = "returned",
                       ![p].overwritten =
                           IF get_session_plan(session_id) = me.plan THEN <<>>
                           ELSE get_session_plan(session_id)]
    /\ UNCHANGED <<sessions, progress_snapshots, student_skills, student_topics,
                   MASTERY_OVERRIDE, last, since_refresh, solve_log, calls,
                   retry, probe>>

\* Lines 446-466: the checkpoint planner call is over, the plan is saved.
PlannerReturnsTo(p) ==
    /\ Suspended(p, "planner")
    /\ \E p1 \in RacePlanners :
        LET me == in_flight[p]
            session_id == me.session_id
            plan == plan_in_hand(me.plan[1], get_session_plan(session_id))
            topic == sessions[session_id].topic
        IN
        /\ session_plans' = [session_plans EXCEPT ![session_id] =
               <<plan_after_step(plan, topic, FALSE, p1)>>]
        /\ in_flight' = [in_flight EXCEPT
               ![p].pc = "idle",
               ![p].outcome = "returned",
               ![p].overwritten =
                   IF get_session_plan(session_id) = me.plan THEN <<>>
                   ELSE get_session_plan(session_id)]
    /\ UNCHANGED <<sessions, interactions, session_stats, progress_snapshots,
                   student_skills, student_topics, MASTERY_OVERRIDE, last,
                   since_refresh, solve_log, calls, retry, probe>>

\* refresh_plan, lines 18-30: session, mastery and previous plan are read for
\* the prompt, and the call waits for the planner.
BeginRefresh(p) ==
    /\ calls < MaxRaceCalls
    /\ Suspended(p, "idle")
    /\ \E user_id \in Users, session_id \in 1..Len(sessions), reason \in Reasons,
          step_budget \in StepBudgets :
        in_flight' = [in_flight EXCEPT ![p] =
            [NotInFlight EXCEPT !.pc = "refresh_planner",
                                !.op = "refresh_plan",
                                !.session_id = session_id,
                                !.user_id = user_id,
                                !.plan = get_session_plan(session_id),
                                !.request = <<reason, step_budget>>]]
    /\ calls' = calls + 1
    /\ UNCHANGED <<repo, MASTERY_OVERRIDE, last, since_refresh, solve_log,
                   retry, probe>>

\* refresh_plan, lines 46-53: the planner's plan replaces the session's plan;
\* an exception of the planner leaves refresh_plan unhandled.
RefreshPlannerReturnsTo(p) ==
    /\ Suspended(p, "refresh_planner")
    /\ \E p1 \in RacePlanners :
        LET me == in_flight[p]
            session_id == me.session_id
        IN
        IF p1 = "raise"
        THEN /\ in_flight' = [in_flight EXCEPT ![p].pc = "idle",
                                               ![p].outcome = "raised"]
             /\ UNCHANGED session_plans
        ELSE /\ session_plans' = [session_plans EXCEPT ![session_id] =
                    <<refreshed_plan(me.plan, call_planner_agent(p1),
                                     sessions[session_id].topic,
                                     me.request[2], me.request[1])>>]
             /\ in_flight' = [in_flight EXCEPT ![p].pc = "idle",
                                               ![p].outcome = "returned"]
    /\ UNCHANGED <<sessions, interactions, session_stats, progress_snapshots,
                   student_skills, student_topics, MASTERY_OVERRIDE, last,
                   since_refresh, solve_log, calls, retry, probe>>

RaceNext ==
    \E p \in Procs :
        \/ BeginTurn(p)
        \/ DialogueRaisesTo(p)
        \/ DialogueReturnsTo(p)
        \/ PlannerReturnsTo(p)
        \/ BeginRefresh(p)
        \/ RefreshPlannerReturnsTo(p)

SpecRace == RaceInit /\ [][RaceNext]_vars

\* ------------------------------------------- plans, whatever the planner says
\* handle_student_message and refresh_plan with a planner that answers with
\* any of the texts of PlannerTexts, or fails either way.
AnyPlannerOutcomes == {"raise", "sdk_error", "rp1", "rp2", "rp3"}

PlansTopicShift == TopicShiftUsing(MaxPlanCalls, AnyPlannerOutcomes)
PlansGoalShift == GoalShiftWith(MaxPlanCalls, DialogueReturns)
PlansSolved ==
    NormalSolvedWith(MaxPlanCalls, DialogueReturns, LearningOutcomes, AnyPlannerOutcomes)
PlansNotSolved ==
    NormalNotSolvedWith(MaxPlanCalls, Inputs, DialogueReturns, AnyPlannerOutcomes)
PlansRefresh == RefreshPlanWith(MaxPlanCalls, AnyPlannerOutcomes)

PlansNext ==
    \/ PlansTopicShift
    \/ PlansGoalShift
    \/ PlansSolved
    \/ PlansNotSolved
    \/ PlansRefresh

SpecPlans == Init /\ [][PlansNext]_vars

\* --------------------------------------- call_with_retry, pass after pass
\* One run of call_with_retry(fn, max_retries, base_delay, max_delay); each
\* action is one pass of its while loop, fn answering as it likes.
RetryBudgets == 0..MaxRetries \cup {DefaultMaxRetries}
BaseDelays == {800}
MaxDelays == {2000, 8000}

RetryInit ==
    /\ AppInit
    /\ probe = NoProbe
    /\ in_flight = NoneInFlight
    /\ \E n \in RetryBudgets, b \in BaseDelays, d \in MaxDelays :
        retry = [NoRetry EXCEPT !.pc = "calling", !.max_retries = n,
                                !.base_delay = b, !.max_delay = d]

\* return fn()
RetryReturns ==
    /\ retry.pc = "calling"
    /\ retry' = [retry EXCEPT !.pc = "returned", !.invocations = @ + 1,
                              !.outcome = Response,
                              !.result = <<"return", Response>>]
    /\ UNCHANGED <<app_vars, probe, in_flight>>

\* except SDKError, rate limit / capacity, retries left: sleep and continue
RetrySleeps ==
    /\ retry.pc = "calling"
    /\ \E e \in SDKErrors :
        LET attempt == retry.attempt + 1
            delay == backoff_delay(retry.base_delay, retry.max_delay, attempt)
        IN
        /\ rate_limit_or_capacity(e.detail)
        /\ ~retries_exhausted(attempt, retry.max_retries)
        /\ \E jitter \in jitters(delay) :
            retry' = [retry EXCEPT !.attempt = attempt, !.invocations = @ + 1,
                                   !.outcome = e,
                                   !.sleeps = Append(@, delay + jitter)]
    /\ UNCHANGED <<app_vars, probe, in_flight>>

\* except SDKError, rate limit / capacity, attempt > max_retries: raise
RetryGivesUp ==
    /\ retry.pc = "calling"
    /\ \E e \in SDKErrors :
        LET attempt == retry.attempt + 1 IN
        /\ rate_limit_or_capacity(e.detail)
        /\ retries_exhausted(attempt, retry.max_retries)
        /\ retry' = [retry EXCEPT !.pc = "raised", !.attempt = attempt,
                                  !.invocations = @ + 1, !.outcome = e,
                                  !.result = <<"raise", e>>]
    /\ UNCHANGED <<app_vars, probe, in_flight>>

\* except SDKError, any other message: raise ("fail fast")
RetryFailsFast ==
    /\ retry.pc = "calling"
    /\ \E e \in SDKErrors :
        /\ ~rate_limit_or_capacity(e.detail)
        /\ retry' = [retry EXCEPT !.pc = "raised", !.invocations = @ + 1,
                                  !.outcome = e, !.result = <<"raise", e>>]
    /\ UNCHANGED <<app_vars, probe, in_flight>>

\* fn raises what "except SDKError" does not catch
RetryPassesThrough ==
    /\ retry.pc = "calling"
    /\ \E e \in OtherErrors :
        retry' = [retry EXCEPT !.pc = "raised", !.invocations = @ + 1,
                               !.outcome = e, !.result = <<"raise", e>>]
    /\ UNCHANGED <<app_vars, probe, in_flight>>

RetryNext ==
    \/ RetryReturns
    \/ RetrySleeps
    \/ RetryGivesUp
    \/ RetryFailsFast
    \/ RetryPassesThrough

\* The loop runs in the caller's thread: as long as a pass is possible, one
\* is taken (fn returns or raises, time.sleep returns).
SpecRetry == RetryInit /\ [][RetryNext]_vars /\ WF_vars(RetryNext)

\* --------------------------------------------------------------- properties
HandledTurn == last.op = "handle_student_message"

\* The plan the session of the most recent call has in session_plans.
PersistedPlan == session_plans[last.session_id][1]

\* The plan in effect when the most recent turn's reply was produced.
ActivePlan == last.active_plan[1]

SolvedTurn == HandledTurn /\ last.branch = "solved"

\* The SOLVED turns that went on to generate a next plan.
SolvedTurnPlanned == SolvedTurn /\ last.learning # "raise"

\* A step that is a call of handle_student_message.
TurnStep == calls' = calls + 1 /\ last'.op = "handle_student_message"

\* A turn whose dialogue call failed: an exception into the handler, or an
\* SDKError out of call_with_retry (retries exhausted) inside the agent.
DialogueFailedStep == TurnStep /\ last'.dialogue \in {"raise", "sdk_error"}

\* The rows a step adds to the interactions of the session it works on.
TutorTurnAdded ==
    \E i \in 1..Len(interactions'[last'.session_id]) :
        /\ i > Len(interactions[last'.session_id])
        /\ interactions'[last'.session_id][i].speaker = "tutor"

solved_count_of(row) == IF row = <<>> THEN 0 ELSE row[1].solved_count

\* C1: when the dialogue call fails, the handler answers ONGOING, persists no
\* tutor turn, and leaves session stats, the plan's steps_used, progress
\* snapshots and skill records as they were before the dialogue call.
C1_FailedDialogueMutatesNothing ==
    [][DialogueFailedStep =>
        /\ last'.reply.status = "ONGOING"
        /\ ~TutorTurnAdded
        /\ session_stats' = session_stats
        /\ session_plans'[last'.session_id][1].steps_used
               = last'.active_plan[1].steps_used
        /\ progress_snapshots' = progress_snapshots
        /\ student_skills' = student_skills
        /\ student_topics' = student_topics]_vars

\* C2: a turn is all-or-nothing: when the dialogue call fails the repository
\* is exactly as before the call of the handler (no student turn, no tutor
\* turn, no plan write); otherwise both turns of the exchange are persisted.
C2_TurnAllOrNothing ==
    [][TurnStep /\ last'.branch # "ignored" =>
        IF last'.dialogue \in {"raise", "sdk_error"}
        THEN repo' = repo
        ELSE /\ Len(interactions'[last'.session_id])
                   = Len(interactions[last'.session_id]) + 2
             /\ TutorTurnAdded]_vars

\* C3: the turn indices persisted for a session are exactly 0..k, in
\* persistence order, each used once.
C3_ContiguousTurnIndices ==
    \A sid \in SessionIds :
        \A i \in 1..Len(interactions[sid]) :
            interactions[sid][i].turn_index = i - 1

\* A session that went through a failed dialogue call (one row) and two full
\* exchanges, the last of them SOLVED.
C3_Witness ==
    /\ SolvedTurn
    /\ Len(interactions[last.session_id]) = 5

\* C4: after a turn whose reply is SOLVED (normal branch) the persisted plan
\* has steps_used = 0, whatever skill extraction and planning did.
C4_SolvedResetsSteps == SolvedTurn => PersistedPlan.steps_used = 0

\* C5: a SOLVED normal turn records exactly one progress snapshot, for the
\* session's user and topic, and no other turn records any or touches the
\* skill records; the snapshots a turn adds are as many as it adds to the
\* session's solved_count.
C5_OneSnapshotPerSolved ==
    [][TurnStep =>
        LET sid == last'.session_id
            added == Len(progress_snapshots') - Len(progress_snapshots)
        IN  /\ added = solved_count_of(session_stats'[sid])
                           - solved_count_of(session_stats[sid])
            /\ IF last'.branch = "solved"
               THEN /\ added = 1
                    /\ progress_snapshots'[Len(progress_snapshots')].user_id
                           = sessions[sid].user_id
                    /\ progress_snapshots'[Len(progress_snapshots')].topic
                           = sessions[sid].topic
               ELSE /\ added = 0
                    /\ student_skills' = student_skills
                    /\ student_topics' = student_topics]_vars

\* The plan the first planner call of the most recent SOLVED turn gave: the
\* planner's, or the active plan with its counter reset when it raised.
FirstNextPlan ==
    IF last.planner_calls[1][2] = "raise" THEN [ActivePlan EXCEPT !.steps_used = 0]
    ELSE plan_of(call_planner_agent(last.planner_calls[1][2]),
                 sessions[last.session_id].topic, DefaultStepBudget, Absent)

\* C6 as stated: after a SOLVED turn that generated a next plan, the persisted
\* plan's goal is never the goal just solved.
C6_NeverRepeatsSolvedGoal ==
    SolvedTurnPlanned => PersistedPlan.goal # ActivePlan.goal

\* C6, amended: after a SOLVED turn that generated a next plan, the persisted
\* plan's goal equals the goal just solved only if the corrective planner call
\* was made and either raised or returned that goal again.
C6_RepeatsOnlyAfterCorrective ==
    SolvedTurnPlanned /\ PersistedPlan.goal = ActivePlan.goal =>
        /\ Len(last.planner_calls) = 2
        /\ \/ last.planner_calls[2][2] = "raise"
           \/ call_planner_agent(last.planner_calls[2][2]).goal = ActivePlan.goal

\* A SOLVED turn whose corrective call returned the solved goal once more.
C6_Witness ==
    /\ SolvedTurnPlanned
    /\ Len(last.planner_calls) = 2
    /\ last.planner_calls[2][2] # "raise"
    /\ PersistedPlan.goal = ActivePlan.goal

\* C7: a SOLVED turn calls the planner once for the next plan and, iff that
\* plan's goal is the goal just solved, exactly once more with the reason
\* avoid_repeat_goal; the corrective result is persisted whatever its goal
\* (the first plan when the corrective call raised), and nothing more is
\* called.
C7_AtMostOneCorrective ==
    SolvedTurnPlanned =>
        /\ Len(last.planner_calls) \in {1, 2}
        /\ last.planner_calls[1][1] = "learning.reason"
        /\ Len(last.planner_calls) = 2 <=> FirstNextPlan.goal = ActivePlan.goal
        /\ IF Len(last.planner_calls) = 2
           THEN /\ last.planner_calls[2][1] = "avoid_repeat_goal"
                /\ PersistedPlan =
                       IF last.planner_calls[2][2] = "raise" THEN FirstNextPlan
                       ELSE plan_of(call_planner_agent(last.planner_calls[2][2]),
                                    sessions[last.session_id].topic,
                                    DefaultStepBudget, Absent)
           ELSE PersistedPlan = FirstNextPlan

\* A SOLVED turn that made the corrective call and persisted its plan.
C7_Witness ==
    /\ SolvedTurnPlanned
    /\ Len(last.planner_calls) = 2
    /\ last.planner_calls[2][2] = "rp1"

\* C8: a non-SOLVED normal turn that brings steps_used to step_budget or
\* beyond (or is forced) asks the planner for a plan and persists
\* steps_used = 0; steps_used <= step_budget in every persisted plan; and
\* steps_used < step_budget after every completed normal turn.
C8_StepsWithinBudget ==
    /\ HandledTurn /\ last.branch = "not_solved"
           /\ (last.input[2] \/ ActivePlan.steps_used + 1 >= ActivePlan.step_budget)
       => Len(last.planner_calls) = 1 /\ PersistedPlan.steps_used = 0
    /\ \A sid \in SessionIds :
           session_plans[sid] # <<>> =>
               session_plans[sid][1].steps_used <= session_plans[sid][1].step_budget
    /\ HandledTurn /\ last.branch \in {"solved", "not_solved"}
       => PersistedPlan.steps_used < PersistedPlan.step_budget

\* C9: a turn makes the step-budget refresh request at most once, and between
\* one step-budget refresh attempt and the next in a session at least as many
\* non-SOLVED normal turns are processed as the step_budget the earlier
\* attempt left, when no forced or external refresh or advance intervenes.
C9_RefreshDoesNotDoubleFire ==
    HandledTurn /\ last.branch = "not_solved" =>
        /\ Len(last.planner_calls) <= 1
        /\ Len(last.planner_calls) = 1 <=> last.refresh # "none"
        /\ last.refresh = "step_budget" /\ last.turns_since # <<>>
           => last.turns_since[1] + 1 >= last.turns_since[2]

\* A second step-budget refresh in one session, the first one having failed.
C9_Witness ==
    /\ HandledTurn
    /\ last.refresh = "step_budget"
    /\ last.turns_since # <<>>

\* C10: when the planner fails during a step-budget refresh of a non-SOLVED
\* normal turn, the persisted plan is the plan before the turn in every field
\* but steps_used, which is 0, and the tutor's reply is returned.
C10_FailedRefreshKeepsPlan ==
    /\ HandledTurn
    /\ last.refresh = "step_budget"
    /\ last.planner_calls[1][2] \in {"raise", "sdk_error"}
    => /\ PersistedPlan = [ActivePlan EXCEPT !.steps_used = 0]
       /\ last.reply.tutor_message # "Model error (rate limit). Try again."

\* ------------------------------------------------ properties, second part
attempts_of(row) == IF row = <<>> THEN 0 ELSE row[1].attempts

\* How many times a call wrote to a table.
WriteCount(writes, table) ==
    Cardinality({i \in 1..Len(writes) : writes[i] = table})

RECURSIVE SumSeq(_)
SumSeq(seq) == IF seq = <<>> THEN 0 ELSE Head(seq) + SumSeq(Tail(seq))

\* A turn whose input passed step 0 and whose dialogue call did not fail.
ProcessedTurnStep ==
    TurnStep /\ last'.branch # "ignored" /\ last'.dialogue = "ok"

\* The branches of the handler that run to their end after a dialogue reply.
CompletedBranches == {"topic_shift", "goal_shift", "solved", "not_solved"}

\* C11: attempts grows by one, through a single write of session_stats, in
\* exactly the turns whose input was neither empty nor a command and whose
\* dialogue call did not fail, and by nothing otherwise; and
\* solved_count <= attempts.
C11_AttemptsCountProcessedTurns ==
    [][/\ \A sid \in SessionIds :
             /\ attempts_of(session_stats'[sid]) =
                    attempts_of(session_stats[sid])
                    + (IF ProcessedTurnStep /\ sid = last'.session_id THEN 1 ELSE 0)
             /\ solved_count_of(session_stats'[sid]) <= attempts_of(session_stats'[sid])
       /\ ProcessedTurnStep => WriteCount(last'.writes, "session_stats") = 1]_vars

\* C12: the incrementally kept avg_steps_to_solve is the mean of steps_to_solve
\* over all SOLVED turns of the session so far (avg * solved_count = their
\* sum); it is unset while nothing is solved and the first solve sets it to
\* that solve's steps_to_solve.
C12_RunningAverageIsMean ==
    \A sid \in SessionIds :
        LET log == solve_log[sid]
            row == session_stats[sid]
        IN  IF row = <<>> THEN log = <<>>
            ELSE /\ row[1].solved_count = Len(log)
                 /\ IF log = <<>> THEN row[1].avg_steps_to_solve = <<>>
                    ELSE /\ row[1].avg_steps_to_solve # <<>>
                         /\ row[1].avg_steps_to_solve[1] * Len(log)
                                = SumSeq(log) * row[1].avg_steps_to_solve[2]
                         /\ Len(log) = 1 => row[1].avg_steps_to_solve = <<log[1], 1>>

\* Two solves of one session that took different numbers of steps.
C12_Witness ==
    \E sid \in SessionIds :
        /\ Len(solve_log[sid]) = 2
        /\ solve_log[sid][1] # solve_log[sid][2]

\* C13: every completed branch writes the session's plan exactly once during
\* the turn, and that write is the last repository write of the turn.
C13_PlanWrittenOnceAtEnd ==
    HandledTurn /\ last.branch \in CompletedBranches =>
        /\ WriteCount(last.writes, "session_plans") = 1
        /\ last.writes[Len(last.writes)] = "session_plans"

\* C14: after a topic shift to X the tutor turn is in the original session at
\* the index after the student's turn, a new session of the same user for X
\* exists, its plan has topic X and steps_used 0 and is the planner's plan, or
\* the warm-up default when planning failed, and the reply carries the new
\* session's identifier.
C14_TopicShiftBootstrapsSession ==
    HandledTurn /\ last.branch = "topic_shift" =>
        LET sid == last.session_id
            new == last.reply.new_session_id
            X == last.new_topic
            rows == interactions[sid]
            user_id == sessions[sid].user_id
            p1 == last.planner_calls[1][2]
            mastery == IF has_override(user_id, X) THEN get_override(user_id, X)
                       ELSE get_topic_mastery(user_id, X)
        IN  /\ Len(rows) >= 2
            /\ rows[Len(rows) - 1].speaker = "student"
            /\ rows[Len(rows)].speaker = "tutor"
            /\ rows[Len(rows)].turn_index = rows[Len(rows) - 1].turn_index + 1
            /\ new \in 1..Len(sessions) /\ new # sid
            /\ sessions[new].topic = X
            /\ sessions[new].user_id = user_id
            /\ session_plans[new] # <<>>
            /\ session_plans[new][1].topic = X
            /\ session_plans[new][1].steps_used = 0
            /\ session_plans[new][1] =
                   IF p1 \in {"raise", "sdk_error"}
                   THEN ensure_plan(<<>>, X, mastery, target_from_mastery(mastery))
                   ELSE plan_of(call_planner_agent(p1), X, DefaultStepBudget, Absent)

\* C15: a topic-shift turn leaves the original session as it was but for its
\* two new turns: its plan record and its topic are unchanged, and no session
\* stats, progress snapshot or skill record is updated.
C15_TopicShiftLeavesOriginal ==
    [][TurnStep /\ last'.branch = "topic_shift" =>
        LET sid == last'.session_id IN
        /\ session_plans'[sid] = session_plans[sid]
        /\ sessions'[sid] = sessions[sid]
        /\ Len(interactions'[sid]) = Len(interactions[sid]) + 2
        /\ session_stats' = session_stats
        /\ progress_snapshots' = progress_snapshots
        /\ student_skills' = student_skills
        /\ student_topics' = student_topics]_vars

\* C16: a goal-shift turn persists the tutor turn and rewrites the plan in
\* place: goal = the reply's new goal, steps_used = 0, mode, target skills and
\* context tag rewritten; topic, difficulty, hint policy and step_budget keep
\* their prior values; session stats, progress snapshots (hence mastery) and
\* skill records are unchanged, whatever the reply's status.
C16_GoalShiftRewritesPlanInPlace ==
    [][TurnStep /\ last'.branch = "goal_shift" =>
        LET sid == last'.session_id
            prior == IF session_plans[sid] # <<>> THEN session_plans[sid][1]
                     ELSE last'.active_plan[1]
            plan == session_plans'[sid][1]
        IN  /\ TutorTurnAdded
            /\ plan.goal = last'.new_goal
            /\ plan.steps_used = 0
            /\ plan.mode = "advance"
            /\ plan.target_skills = <<>>
            /\ plan.context_tag = "user_request"
            /\ plan.topic = prior.topic
            /\ plan.difficulty = prior.difficulty
            /\ plan.hint_policy = prior.hint_policy
            /\ plan.step_budget = prior.step_budget
            /\ session_stats' = session_stats
            /\ progress_snapshots' = progress_snapshots
            /\ student_skills' = student_skills
            /\ student_topics' = student_topics]_vars

\* A goal shift answered SOLVED on a plan that had steps behind it.
C16_Witness ==
    /\ HandledTurn
    /\ last.branch = "goal_shift"
    /\ last.reply.status = "SOLVED"
    /\ ActivePlan.steps_used > 0
    /\ PersistedPlan.goal = last.new_goal

\* C17: a call with an empty message or a command answers ONGOING and has no
\* side effect (no turn logged, no capability called, nothing written),
\* whether or not the caller forces a refresh.
C17_RejectedInputHasNoEffect ==
    [][TurnStep /\ last'.input[1] \in {"", "/cmd"} =>
        /\ last'.reply.status = "ONGOING"
        /\ repo' = repo
        /\ last'.dialogue = "none"
        /\ last'.learning = "none"
        /\ last'.planner_calls = <<>>]_vars

\* C18: the handler never raises on a failure of the dialogue, planning or
\* skill-extraction call: it returns a valid reply, and the tutor's own reply
\* whenever the dialogue call succeeded.
C18_CapabilityFailuresNeverRaise ==
    HandledTurn /\ last.branch # "ignored" =>
        /\ last.branch \in CompletedBranches \cup {"dialogue_error"}
        /\ last.reply.status \in {"ONGOING", "SOLVED", "GIVE_UP"}
        /\ last.reply.action \in {"WRITE_ANSWER", "REFLECT", "ASK_QUESTION"}
        /\ last.dialogue = "ok" => last.reply.tutor_message = "msg"

\* A SOLVED turn in which the planner raised twice, answered with the tutor's
\* SOLVED reply.
C18_Witness ==
    /\ SolvedTurnPlanned
    /\ Len(last.planner_calls) = 2
    /\ last.planner_calls[1][2] = "raise"
    /\ last.planner_calls[2][2] = "raise"
    /\ last.reply.status = "SOLVED"
    /\ last.reply.tutor_message = "msg"

\* C19: refresh_plan always persists a plan with the session's topic,
\* steps_used = 0, the requested step_budget and refresh_reason = reason, and
\* when planning failed the plan's content is the warm-up default.
C19_RefreshPlanAlwaysNormalizes ==
    last.op = "refresh_plan" =>
        /\ last.branch = "saved"
        /\ LET topic == sessions[last.session_id].topic
               user_id == sessions[last.session_id].user_id
               mastery == get_topic_mastery(user_id, topic)
               p1 == last.planner_calls[1][2]
               warmup == ensure_plan(<<>>, topic, mastery, target_from_mastery(mastery))
           IN  /\ PersistedPlan.topic = topic
               /\ PersistedPlan.steps_used = 0
               /\ PersistedPlan.step_budget = last.request[1]
               /\ PersistedPlan.refresh_reason = last.planner_calls[1][1]
               /\ p1 \in {"raise", "sdk_error"} =>
                      /\ PersistedPlan.goal = warmup.goal
                      /\ PersistedPlan.difficulty = warmup.difficulty
                      /\ PersistedPlan.mode = warmup.mode
                      /\ PersistedPlan.context_tag = warmup.context_tag

\* A completed call of refresh_plan.
RefreshStep ==
    calls' = calls + 1 /\ last'.op = "refresh_plan" /\ last'.branch = "saved"

\* C20: the plan refresh_plan persists is made of the planner's output, the
\* session's topic and the call's arguments alone, nothing of the prior plan;
\* a second call with the same arguments and planner output leaves the plan
\* of the first; and no turn, session stats, progress snapshot or skill
\* record is written.
C20_RefreshPlanReplacesWholesale ==
    [][RefreshStep =>
        LET sid == last'.session_id IN
        /\ session_plans'[sid] =
               <<plan_of(call_planner_agent(last'.planner_calls[1][2]),
                         sessions[sid].topic, last'.request[1],
                         last'.planner_calls[1][1])>>
        /\ \A other \in SessionIds \ {sid} :
               session_plans'[other] = session_plans[other]
        /\ (/\ last.op = "refresh_plan" /\ last.branch = "saved"
            /\ last.session_id = sid
            /\ last.planner_calls = last'.planner_calls
            /\ last.request = last'.request)
           => session_plans' = session_plans
        /\ sessions' = sessions
        /\ interactions' = interactions
        /\ session_stats' = session_stats
        /\ progress_snapshots' = progress_snapshots
        /\ student_skills' = student_skills
        /\ student_topics' = student_topics]_vars

\* refresh_plan run with the planner's own plan on a session that already had
\* a full exchange, and with it a plan.
C20_Witness ==
    /\ last.op = "refresh_plan"
    /\ last.branch = "saved"
    /\ last.planner_calls[1][2] = "rp1"
    /\ Len(interactions[last.session_id]) >= 2

\* ------------------------------------------------- properties, third part
\* A failure of the transient-capacity class: an SDKError whose detail names
\* status 429, a rate limit or missing capacity.
TransientFailure(o) ==
    o.type = "SDKError" /\ o.detail \in {Status429, RateLimit, Capacity}

Failure(o) == o.type \in {"SDKError", "OtherError"}

RetryDone == retry.pc \in {"returned", "raised"}

\* C21: call_with_retry invokes fn again only after a failure of the
\* transient-capacity class; after any other failure it has raised that
\* failure to its caller, having slept for none but the earlier transient
\* failures, and fn is not invoked again.
C21_RetriesOnlyTransientFailures ==
    /\ (retry.pc = "calling" /\ retry.invocations > 0) =>
           /\ TransientFailure(retry.outcome)
           /\ Len(retry.sleeps) = retry.invocations
    /\ (Failure(retry.outcome) /\ ~TransientFailure(retry.outcome)) =>
           /\ retry.pc = "raised"
           /\ retry.result = <<"raise", retry.outcome>>
           /\ Len(retry.sleeps) = retry.invocations - 1

\* A failure that is not transient, met on a retry.
C21_Witness ==
    /\ retry.pc = "raised"
    /\ retry.outcome = FnOutcome("SDKError", Status401)
    /\ retry.invocations >= 2

\* C22: call_with_retry terminates; fn is invoked at most max_retries + 1
\* times; when the run ends on a transient failure fn was invoked exactly
\* max_retries + 1 times with max_retries sleeps and that failure is raised;
\* when an invocation succeeds its result is returned; once the run has
\* ended fn is not invoked again.
C22_RetryTerminatesWithinBudget ==
    /\ <>RetryDone
    /\ [](/\ retry.invocations <= retry.max_retries + 1
          /\ (retry.pc = "raised" /\ TransientFailure(retry.outcome)) =>
                 /\ retry.invocations = retry.max_retries + 1
                 /\ Len(retry.sleeps) = retry.max_retries
                 /\ retry.result = <<"raise", retry.outcome>>
          /\ retry.pc = "returned" =>
                 /\ retry.outcome = Response
                 /\ retry.result = <<"return", Response>>
          /\ retry.outcome = Response => retry.pc = "returned")
    /\ [][RetryDone => retry' = retry]_vars

\* Every invocation failed transiently and the retries ran out.
C22_Witness ==
    /\ retry.pc = "raised"
    /\ TransientFailure(retry.outcome)
    /\ retry.max_retries >= 2
    /\ retry.invocations = retry.max_retries + 1

\* The recorded deltas of a (user, topic) pair, in the order recorded.
DeltasOf(rows, user_id, topic) ==
    LET idx == {i \in 1..Len(rows) :
                   rows[i].user_id = user_id /\ rows[i].topic = topic}
        RECURSIVE pick(_)
        pick(i) == IF i > Len(rows) THEN <<>>
                   ELSE IF i \in idx THEN <<rows[i].mastery_delta>> \o pick(i + 1)
                   ELSE pick(i + 1)
    IN  pick(1)

IsPrefix(a, b) == Len(a) <= Len(b) /\ \A i \in 1..Len(a) : a[i] = b[i]

\* C23: topic mastery of a (user, topic) pair is min(1.0, sum of the pair's
\* recorded deltas) and lies in [0, 1]; every recorded delta is at least
\* 0.05; snapshots are only ever appended; mastery never decreases, and a
\* snapshot recorded for a pair below the cap strictly increases its mastery.
C23_MasteryIsCappedSumAndGrows ==
    /\ [](\A u \in Users, t \in Topics :
            /\ get_topic_mastery(u, t)
                   = Min(Scale, SumSeq(DeltasOf(progress_snapshots, u, t)))
            /\ get_topic_mastery(u, t) >= 0
            /\ get_topic_mastery(u, t) <= Scale
            /\ \A i \in 1..Len(progress_snapshots) :
                   20 * progress_snapshots[i].mastery_delta >= Scale)
    /\ [][/\ IsPrefix(progress_snapshots, progress_snapshots')
          /\ \A u \in Users, t \in Topics :
               /\ get_topic_mastery(u, t)' >= get_topic_mastery(u, t)
               /\ (/\ Len(DeltasOf(progress_snapshots', u, t))
                          > Len(DeltasOf(progress_snapshots, u, t))
                   /\ get_topic_mastery(u, t) < Scale)
                  => get_topic_mastery(u, t)' > get_topic_mastery(u, t)]_vars

\* The deltas of the pair add up to more than 1.0 and a further solve was
\* recorded at the cap.
C23_Witness ==
    /\ SumSeq(DeltasOf(progress_snapshots, "u1", "t1")) > Scale
    /\ get_topic_mastery("u1", "t1") = Scale
    /\ Len(progress_snapshots) >= 2
    /\ SumSeq(DeltasOf(SubSeq(progress_snapshots, 1, Len(progress_snapshots) - 1),
                       "u1", "t1")) >= Scale

\* The counters a session's statistics start from.
ZeroStats ==
    [attempts |-> 0, solved_count |-> 0, hint_count |-> 0,
     avg_steps_to_solve |-> <<>>, mastery_delta |-> <<>>]

StatsOf(row) == IF row = <<>> THEN ZeroStats ELSE row[1]

\* A step that is a normal turn (SOLVED or not) of handle_student_message.
NormalTurnStep == TurnStep /\ last'.branch \in {"solved", "not_solved"}

\* C24: a normal turn changes the statistics of its session, and of no
\* other, in this way, starting from zero counters when the session has no
\* row yet: attempts + 1; hint_count + 1 iff the hint policy of the plan in
\* effect for the reply is "high"; solved_count + 1 iff the reply is SOLVED;
\* avg_steps_to_solve untouched unless SOLVED; mastery_delta is the delta
\* computed for a SOLVED turn and is retained otherwise.  No other step
\* touches the statistics.
C24_StatsChangeAsRecordTurn ==
    [][IF NormalTurnStep
       THEN LET sid == last'.session_id
                old == StatsOf(session_stats[sid])
                new == StatsOf(session_stats'[sid])
                solved == last'.reply.status = "SOLVED"
                high == last'.active_plan[1].hint_policy = "high"
            IN  /\ session_stats'[sid] # <<>>
                /\ \A other \in SessionIds \ {sid} :
                       session_stats'[other] = session_stats[other]
                /\ new.attempts = old.attempts + 1
                /\ new.hint_count = old.hint_count + (IF high THEN 1 ELSE 0)
                /\ new.solved_count = old.solved_count + (IF solved THEN 1 ELSE 0)
                /\ ~solved => new.avg_steps_to_solve = old.avg_steps_to_solve
                /\ solved => new.avg_steps_to_solve # <<>>
                /\ new.mastery_delta =
                       IF solved
                       THEN <<Max(Scale \div 20,
                                  (Scale - get_topic_mastery(sessions[sid].user_id,
                                                             sessions[sid].topic)) \div 5)>>
                       ELSE old.mastery_delta
       ELSE session_stats' = session_stats]_vars

\* A turn that was not SOLVED, under a plan whose hint policy is "high", in a
\* session that also had turns without hints and has a mastery delta on record.
C24_Witness ==
    /\ HandledTurn
    /\ last.branch = "not_solved"
    /\ last.active_plan[1].hint_policy = "high"
    /\ session_stats[last.session_id][1].hint_count >= 1
    /\ session_stats[last.session_id][1].attempts >= 3
    /\ session_stats[last.session_id][1].hint_count
           < session_stats[last.session_id][1].attempts
    /\ session_stats[last.session_id][1].mastery_delta # <<>>

\* The most recent call was the first turn of its session (nothing but its
\* own two messages is on record), was answered SOLVED on the normal branch,
\* and the pair had no progress on record before it.
FirstTurnSolved ==
    /\ SolvedTurn
    /\ Len(interactions[last.session_id]) = 2
    /\ Len(DeltasOf(progress_snapshots, sessions[last.session_id].user_id,
                    sessions[last.session_id].topic))
           = (IF last.learning = "raise" THEN 0 ELSE 1)

\* C25: after a new session's first turn is answered SOLVED, with no prior
\* progress of the pair, the delta computed for the turn is
\* compute_delta(0.0) = 0.2 (it is the delta of the snapshot the turn
\* records) and the statistics are attempts 1, solved_count 1,
\* avg_steps_to_solve 1.0.
C25_FirstTurnSolvedScenario ==
    FirstTurnSolved =>
        LET sid == last.session_id
            row == session_stats[sid]
            deltas == DeltasOf(progress_snapshots, sessions[sid].user_id,
                               sessions[sid].topic)
        IN  /\ row # <<>>
            /\ row[1].attempts = 1
            /\ row[1].solved_count = 1
            /\ row[1].avg_steps_to_solve = <<1, 1>>
            /\ 5 * row[1].mastery_delta[1] = Scale
            /\ \A i \in 1..Len(deltas) : 5 * deltas[i] = Scale

\* The first turn of a session, SOLVED, its snapshot recorded.
C25_Witness == FirstTurnSolved /\ last.learning # "raise" /\ calls = 1

\* clamp(base + (mastery - 0.5) * 0.2, 0.10, 0.95) in millionths, base being
\* 0.30, 0.55 or 0.75 by label.
ClampedNudge(mastery, label) ==
    LET base == IF label = "easy" THEN (30 * Scale) \div 100
                ELSE IF label = "medium" THEN (55 * Scale) \div 100
                ELSE (75 * Scale) \div 100
        nudged == base + (mastery - Scale \div 2) \div 5
    IN  IF nudged < Scale \div 10 THEN Scale \div 10
        ELSE IF nudged > (95 * Scale) \div 100 THEN (95 * Scale) \div 100
        ELSE nudged

EnsuredPlan == probe.fn = "ensure_plan"

\* The fields of the warm-up plan other than its difficulty.
WarmupFields(plan) ==
    /\ plan.mode = "reinforce"
    /\ plan.question_type = "apply"
    /\ plan.hint_policy = "medium"
    /\ plan.goal = WarmupGoal(plan.topic)
    /\ plan.context_tag = "warmup"
    /\ plan.steps_used = 0
    /\ plan.step_budget = 6

\* C26, as stated: the difficulty of the plan created for a session without
\* a plan is clamp(base + (mastery - 0.5) * 0.2, 0.10, 0.95) itself.
C26_DifficultyIsClampedNudge ==
    EnsuredPlan =>
        /\ WarmupFields(probe.result[1])
        /\ probe.result[1].difficulty * (Scale \div 100)
               = ClampedNudge(probe.m, probe.target)

\* C26, amended: the plan created for a session without a plan is the
\* warm-up plan (mode reinforce, question type apply, hint policy medium,
\* the warm-up goal of the topic, context tag warmup, steps_used 0,
\* step_budget 6) and its difficulty is clamp(base + (mastery - 0.5) * 0.2,
\* 0.10, 0.95) rounded to two decimals, so within [0.10, 0.95]; medium at
\* mastery 0.5 gives 0.55.
C26_DifficultyIsRoundedClampedNudge ==
    EnsuredPlan =>
        LET plan == probe.result[1]
            exact == ClampedNudge(probe.m, probe.target)
            stored == plan.difficulty * (Scale \div 100)
        IN  /\ WarmupFields(plan)
            /\ 2 * (stored - exact) <= Scale \div 100
            /\ 2 * (exact - stored) <= Scale \div 100
            /\ plan.difficulty >= 10
            /\ plan.difficulty <= 95
            /\ (probe.target = "medium" /\ 2 * probe.m = Scale)
                   => plan.difficulty = 55

\* Medium at mastery 0.36: 0.522 is stored as 0.52.
C26_Witness ==
    /\ EnsuredPlan
    /\ probe.target = "medium"
    /\ 100 * probe.m = 36 * Scale
    /\ probe.result[1].difficulty = 52

DeltaComputed == probe.fn = "compute_delta"

\* C29: compute_delta(m) is max(0.05, 0.2 * (1 - m)): within [0.05, 0.2] for
\* m in [0, 1], non-increasing in m, 0.2 at m = 0.0 and 0.05 at m = 1.0, and
\* at the 0.05 floor exactly when m >= 0.75.
C29_ComputeDeltaFloorAndRange ==
    DeltaComputed =>
        LET d == probe.result[1]
            d2 == probe.result[2]
        IN  /\ 20 * d >= Scale
            /\ 5 * d <= Scale
            /\ d2 <= d
            /\ (20 * d = Scale) <=> (4 * probe.m >= 3 * Scale)
            /\ 4 * probe.m < 3 * Scale =>
                   /\ 5 * d <= Scale - probe.m
                   /\ 5 * d > Scale - probe.m - 5
            /\ probe.m = 0 => 5 * d = Scale
            /\ probe.m2 = Scale => 20 * d2 = Scale

\* compute_delta applied at 0.75, where the floor sets in, and at 1.0.
C29_Witness ==
    /\ DeltaComputed
    /\ 4 * probe.m = 3 * Scale
    /\ probe.m2 = Scale
    /\ probe.result = <<Scale \div 20, Scale \div 20>>

TargetComputed == probe.fn = "target_from_mastery"

LabelRank(label) ==
    IF label = "easy" THEN 1 ELSE IF label = "medium" THEN 2 ELSE 3

\* C30: target_from_mastery(m) is "easy" for m < 0.30, "medium" for
\* 0.30 <= m < 0.70 and "hard" for m >= 0.70 (0.29 easy, 0.30 medium,
\* 0.69 medium, 0.70 hard), and the label is monotone in m.
C30_TargetLabelThresholds ==
    TargetComputed =>
        LET label == probe.result[1]
            label2 == probe.result[2]
        IN  /\ label \in TargetLabels
            /\ (label = "easy") <=> (10 * probe.m < 3 * Scale)
            /\ (label = "hard") <=> (10 * probe.m >= 7 * Scale)
            /\ 100 * probe.m = 29 * Scale => label = "easy"
            /\ 100 * probe.m = 30 * Scale => label = "medium"
            /\ 100 * probe.m = 69 * Scale => label = "medium"
            /\ 100 * probe.m = 70 * Scale => label = "hard"
            /\ LabelRank(label) <= LabelRank(label2)

\* target_from_mastery applied at the two thresholds.
C30_Witness ==
    /\ TargetComputed
    /\ 100 * probe.m = 30 * Scale
    /\ 100 * probe.m2 = 70 * Scale
    /\ probe.result = <<"medium", "hard">>

\* A step that is a call naming a session_id without a Session record, the
\* message (for a turn) having passed step 0.
UnknownSessionStep ==
    /\ calls' = calls + 1
    /\ last'.session_id \in UnknownSessionIds
    /\ last'.branch # "ignored"

\* C27: handle_student_message and refresh_plan called for a session_id
\* without a Session record raise the lookup error and leave the repository
\* as it was: no turn, plan, statistics or snapshot is written.
C27_UnknownSessionRaisesAndWritesNothing ==
    [][UnknownSessionStep => last'.branch = "raised" /\ repo' = repo]_vars

SkillKeys == Users \X Topics \X SkillIds

\* How many of the updates of a call go to the skill of a key.
UpdatesFor(key, request) ==
    IF request[1] = key[1] /\ request[2] = key[2]
    THEN Cardinality({i \in 1..Min(5, Len(request[3])) : request[3][i] = key[3]})
    ELSE 0

\* C28: every skill record has mastery within [0, 0.95] and
\* needs_reinforcement exactly when mastery < 0.6 or count < 2; each update
\* adds 0.15 (0.05 if help was needed) to the mastery, 0.35 for a skill
\* not seen before, and caps it at 0.95, so that mastery never decreases;
\* and the count grows by the number of updates applied to the skill.
C28_SkillRecordUpdateRule ==
    /\ [](\A key \in SkillKeys :
            student_skills[key] # <<>> =>
                LET row == student_skills[key][1] IN
                /\ row.mastery >= 0
                /\ row.mastery <= 95
                /\ row.count >= 1
                /\ row.needs_reinforcement <=> (row.mastery < 60 \/ row.count < 2))
    /\ [][\A key \in SkillKeys :
            LET n == UpdatesFor(key, last'.request)
                inc == IF last'.request[4] THEN 5 ELSE 15
                count == IF student_skills[key] = <<>> THEN 0
                         ELSE student_skills[key][1].count
                mastery == IF student_skills[key] = <<>> THEN 35
                           ELSE student_skills[key][1].mastery
            IN  IF n = 0 THEN student_skills'[key] = student_skills[key]
                ELSE /\ student_skills'[key] # <<>>
                     /\ student_skills'[key][1].count = count + n
                     /\ student_skills'[key][1].mastery = Min(95, mastery + n * inc)
                     /\ student_skills'[key][1].mastery >= mastery]_vars

\* A skill at the cap, reached with help on the way, and updated once more.
C28_Witness ==
    \E key \in SkillKeys :
        /\ student_skills[key] # <<>>
        /\ student_skills[key][1].mastery = 95
        /\ ~student_skills[key][1].needs_reinforcement
        /\ student_skills[key][1].count >= 7
        /\ last.request[4] = TRUE
        /\ UpdatesFor(key, last.request) >= 1

\* ------------------------------------------------ properties, fourth part
\* d_k = min(max_delay, base_delay * 2^(k-1)), by doubling.
RECURSIVE CappedDoubling(_, _, _)
CappedDoubling(base_delay, max_delay, k) ==
    IF k = 1 THEN Min(max_delay, base_delay)
    ELSE Min(max_delay, 2 * CappedDoubling(base_delay, max_delay, k - 1))

\* C31: the k-th sleep of a run of call_with_retry is d_k + jitter with
\* d_k = min(max_delay, base_delay * 2^(k-1)) and 0 <= jitter <= 0.3 * d_k;
\* d_k does not decrease with k, no sleep exceeds 1.3 * max_delay, and
\* there are at most max_retries sleeps.
C31_BackoffIsCappedExponentialWithJitter ==
    /\ Len(retry.sleeps) <= retry.max_retries
    /\ \A k \in 1..Len(retry.sleeps) :
        LET d == CappedDoubling(retry.base_delay, retry.max_delay, k)
            jitter == retry.sleeps[k] - d
        IN  /\ jitter >= 0
            /\ 10 * jitter <= 3 * d
            /\ 10 * retry.sleeps[k] <= 13 * retry.max_delay
            /\ k > 1 => d >= CappedDoubling(retry.base_delay, retry.max_delay, k - 1)

\* A third sleep at the cap with the largest jitter, after two below the cap.
C31_Witness ==
    /\ Len(retry.sleeps) >= 3
    /\ retry.sleeps[1] < retry.max_delay
    /\ 10 * retry.sleeps[3] = 13 * retry.max_delay

TurnsBy(sid, speaker) ==
    Cardinality({i \in 1..Len(interactions[sid]) :
                    interactions[sid][i].speaker = speaker})

\* The place of the n-th write to a table among the writes of a call (0 if
\* there are fewer than n).
RECURSIVE NthWrite(_, _, _, _)
NthWrite(writes, table, n, from) ==
    IF from > Len(writes) THEN 0
    ELSE IF writes[from] = table
         THEN IF n = 1 THEN from ELSE NthWrite(writes, table, n - 1, from + 1)
         ELSE NthWrite(writes, table, n, from + 1)

\* C32: a turn counts toward the statistics only once it is logged: the
\* attempts of a session never exceed its persisted tutor turns, which never
\* exceed its persisted student turns; every tutor turn at index i has a
\* student turn of the session at index i - 1; and a call that writes
\* the statistics has written its tutor turn before.
C32_CountedTurnsAreLogged ==
    /\ \A sid \in SessionIds :
        /\ attempts_of(session_stats[sid]) <= TurnsBy(sid, "tutor")
        /\ TurnsBy(sid, "tutor") <= TurnsBy(sid, "student")
        /\ \A i \in 1..Len(interactions[sid]) :
               interactions[sid][i].speaker = "tutor" =>
                   \E j \in 1..Len(interactions[sid]) :
                       /\ interactions[sid][j].speaker = "student"
                       /\ interactions[sid][j].turn_index
                              = interactions[sid][i].turn_index - 1
    /\ NthWrite(last.writes, "session_stats", 1, 1) > 0 =>
           /\ NthWrite(last.writes, "interactions", 2, 1) > 0
           /\ NthWrite(last.writes, "interactions", 2, 1)
                  < NthWrite(last.writes, "session_stats", 1, 1)

\* A session with a counted turn, a logged turn that was not counted (goal
\* shift) and a student message without a reply (failed dialogue call).
C32_Witness ==
    \E sid \in SessionIds :
        /\ attempts_of(session_stats[sid]) >= 1
        /\ attempts_of(session_stats[sid]) < TurnsBy(sid, "tutor")
        /\ TurnsBy(sid, "tutor") < TurnsBy(sid, "student")

Branched == probe.fn = "branch_of"

\* The branch is chosen in strict priority on the reply the agent returned,
\* and that reply never carries both shifts.
StrictPriority(sos_reply, branch) ==
    LET topic == sos_reply.topic_shift /\ sos_reply.new_topic # None
        goal == sos_reply.goal_shift /\ sos_reply.new_goal # None
    IN  /\ branch \in {"topic_shift", "goal_shift", "solved", "not_solved"}
        /\ (branch = "topic_shift") <=> topic
        /\ (branch = "goal_shift") <=> (~topic /\ goal)
        /\ ~(sos_reply.topic_shift /\ sos_reply.goal_shift)

\* C33, as stated: one branch runs, chosen in strict priority (topic shift,
\* goal shift, normal); a raw reply carrying both flags is handled as a
\* topic shift and its goal-shift fields are discarded.
C33_BothFlagsRunTopicShift ==
    Branched =>
        /\ StrictPriority(probe.result[1], probe.result[2])
        /\ (probe.raw.topic_shift /\ probe.raw.goal_shift) =>
               /\ probe.result[2] = "topic_shift"
               /\ ~probe.result[1].goal_shift
               /\ probe.result[1].new_goal = None

\* C33, amended: one branch runs, chosen in strict priority on the reply the
\* agent returned; a raw reply carrying both flags has its goal-shift fields
\* discarded and runs the topic-shift branch if it names a new topic and
\* the normal branch if it does not, never the goal-shift branch.
C33_BothFlagsNeverRunGoalShift ==
    Branched =>
        /\ StrictPriority(probe.result[1], probe.result[2])
        /\ (probe.raw.topic_shift /\ probe.raw.goal_shift) =>
               /\ ~probe.result[1].goal_shift
               /\ probe.result[1].new_goal = None
               /\ probe.result[2] # "goal_shift"
               /\ (probe.result[2] = "topic_shift") <=> (probe.raw.new_topic # None)

\* Both flags and a new goal but no new topic: the normal branch runs.
C33_Witness ==
    /\ Branched
    /\ probe.raw.topic_shift /\ probe.raw.goal_shift
    /\ probe.raw.new_topic = None /\ probe.raw.new_goal = "g3"
    /\ probe.result[2] \in {"solved", "not_solved"}

\* C34: when skill extraction fails on a SOLVED normal turn the planner is
\* not invoked in that turn, the persisted plan is the plan the turn ran
\* under (its goal and its other content), and the tutor's reply is returned.
C34_FailedExtractionSkipsPlanner ==
    /\ HandledTurn
    /\ last.branch = "solved"
    /\ last.learning \in {"raise", "sdk_error"}
    => /\ last.planner_calls = <<>>
       /\ PersistedPlan = ActivePlan
       /\ last.reply = Reply("SOLVED", "ASK_QUESTION", "msg", 0)

OverrideKeys == Users \X Topics

\* The override store holds, per (user, topic), the last value written,
\* clamped to [0, 1], and nothing after a clear.
StoreFollowsWrites ==
    \A k \in OverrideKeys :
        MASTERY_OVERRIDE[k] =
            IF probe.written[k] = <<>> THEN <<>>
            ELSE <<Max(0, Min(Scale, probe.written[k][1]))>>

\* The mastery a turn is to use: the override last written for the topic,
\* clamped, and the capped sum of the recorded deltas when there is none.
EffectiveMastery(user_id, topic) ==
    IF probe.written[<<user_id, topic>>] # <<>>
    THEN Max(0, Min(Scale, probe.written[<<user_id, topic>>][1]))
    ELSE Min(Scale, SumDeltas(progress_snapshots, user_id, topic))

EffectiveTarget(session, mastery) ==
    IF session.difficulty_mode = "manual" THEN session.manual_target_difficulty
    ELSE IF mastery < (3 * Scale) \div 10 THEN "easy"
    ELSE IF mastery < (7 * Scale) \div 10 THEN "medium"
    ELSE "hard"

\* C35: the mastery a turn uses is the developer override when one is set
\* and the computed mastery otherwise; its target difficulty is the session's
\* manual target in manual mode and target_from_mastery of that mastery
\* otherwise; the plan defaults are built from both.  The override store is
\* last-write-wins per (user, topic): the value set, clamped to [0, 1], is
\* what the next turn reads, and after a clear the computed mastery is used.
C35_TurnUsesEffectiveMastery ==
    [][/\ StoreFollowsWrites'
       /\ TurnStep =>
            LET sid == last'.session_id
                session == sessions[sid]
                mastery == EffectiveMastery(session.user_id, session.topic)
                target == EffectiveTarget(session, mastery)
                ctx == turn_context(session.user_id, sid)
            IN  /\ ctx.mastery = mastery
                /\ ctx.target = target
                /\ session_plans[sid] = <<>> =>
                       /\ last'.active_plan[1].difficulty =
                              default_difficulty(mastery, target)
                       /\ last'.active_plan[1].goal = WarmupGoal(session.topic)]_vars

\* A first turn of the second session, in automatic mode, after the topic
\* was solved once and the override was set to 1.5: the warm-up plan is the
\* one for mastery 1.0 and target "hard".
C35_Witness ==
    /\ HandledTurn
    /\ last.session_id = 2
    /\ sessions[2].difficulty_mode = "auto"
    /\ progress_snapshots # <<>>
    /\ probe.fn = "mastery_overrides"
    /\ probe.written[<<"u1", "t1">>] = <<(3 * Scale) \div 2>>
    /\ last.active_plan[1].difficulty = 85

\* The delta the i-th snapshot must carry when it is computed from the
\* snapshots recorded before it and from nothing else.
DeltaFromHistory(i) ==
    LET row == progress_snapshots[i]
        before == SubSeq(progress_snapshots, 1, i - 1)
    IN  Max(Scale \div 20,
            (Scale - Min(Scale, SumDeltas(before, row.user_id, row.topic))) \div 5)

\* C38: the mastery increment of a SOLVED turn is computed from the real
\* topic mastery and never from the developer override: whatever overrides
\* were set or cleared along the way, every recorded ProgressSnapshot delta
\* is the function of the snapshots before it, so runs that differ in the
\* override only record the same deltas and compute the same topic mastery.
C38_DeltasIgnoreOverride ==
    /\ \A i \in 1..Len(progress_snapshots) :
           progress_snapshots[i].mastery_delta = DeltaFromHistory(i)
    /\ \A k \in OverrideKeys :
           get_topic_mastery(k[1], k[2]) =
               Min(Scale, SumDeltas(progress_snapshots, k[1], k[2]))

\* Two SOLVED turns under an override of 0.9 (the warm-up plan was built
\* for it) while the real mastery went 0 -> 0.2 -> 0.36.
C38_Witness ==
    /\ HandledTurn
    /\ last.branch = "solved"
    /\ Len(progress_snapshots) = 2
    /\ MASTERY_OVERRIDE[<<"u1", "t1">>] = <<(9 * Scale) \div 10>>
    /\ last.active_plan[1].difficulty = 83
    /\ progress_snapshots[2].mastery_delta = (16 * Scale) \div 100

\* ------------------------------------------------ properties, fifth part
\* The caller's turn has logged the tutor's reply.
TutorLogged(p) ==
    /\ in_flight[p].op = "handle_student_message"
    /\ in_flight[p].pc = "planner" \/ in_flight[p].outcome = "returned"

RowsAt(session_id, turn_index, speaker) ==
    {i \in 1..Len(interactions[session_id]) :
        /\ interactions[session_id][i].turn_index = turn_index
        /\ interactions[session_id][i].speaker = speaker}

\* C36: nothing protects a session against overlapping calls: when a second
\* turn of the session starts while the first is suspended in its dialogue
\* call, the first call's tutor turn is persisted with the turn index of the
\* second call's student turn.
C36_OvertakenTurnSharesItsIndex ==
    \A p \in Procs :
        TutorLogged(p) /\ in_flight[p].overtaken # {} =>
            LET session_id == in_flight[p].session_id
                turn_index == in_flight[p].turn_index + 1
            IN  /\ turn_index \in in_flight[p].overtaken
                /\ RowsAt(session_id, turn_index, "tutor") # {}
                /\ RowsAt(session_id, turn_index, "student") # {}

\* The first two turns of a session overlap: the first call's tutor turn
\* and the second call's student turn both have index 1.
C36_Witness ==
    /\ TutorLogged(1)
    /\ in_flight[1].turn_index = 0
    /\ in_flight[1].overtaken = {1}
    /\ in_flight[2].op = "handle_student_message"
    /\ in_flight[2].turn_index = 1
    /\ Len(interactions[1]) = 3
    /\ RowsAt(1, 1, "tutor") # {}
    /\ RowsAt(1, 1, "student") # {}

\* The caller's turn writes its plan and returns.
PlanWriteBack(p) ==
    /\ in_flight[p].pc \in {"dialogue", "planner"}
    /\ in_flight'[p].pc = "idle"
    /\ in_flight'[p].outcome = "returned"

\* C37: the final plan write of a normal turn is computed from the plan the
\* turn loaded before its external calls and from nothing read since: a plan
\* that refresh_plan or another turn persisted for the session while the turn
\* was suspended is overwritten and its content (the refreshed plan, the other
\* turn's step increment) is lost.
C37_TurnWritesBackThePlanItLoaded ==
    [][\A p \in Procs :
        PlanWriteBack(p) =>
            LET me == in_flight[p]
                session_id == me.session_id
                topic == sessions[session_id].topic
                stepped == [me.plan[1] EXCEPT !.steps_used = @ + 1]
                planned == plan_of(call_planner_agent("rp1"), topic,
                                   DefaultStepBudget, Absent)
            IN  /\ session_plans'[session_id] \in
                       {<<stepped>>, <<[stepped EXCEPT !.steps_used = 0]>>, <<planned>>}
                /\ session_plans[session_id] # me.plan =>
                       in_flight'[p].overwritten = session_plans[session_id]]_vars

\* refresh_plan ran from start to end while a turn was waiting for the
\* dialogue agent; the turn then saved its own plan, stepped once, over the
\* refreshed one.
C37_Witness ==
    /\ in_flight[1].op = "handle_student_message"
    /\ in_flight[1].pc = "idle"
    /\ in_flight[1].outcome = "returned"
    /\ in_flight[2].op = "refresh_plan"
    /\ in_flight[2].outcome = "returned"
    /\ in_flight[1].overwritten # <<>>
    /\ in_flight[1].overwritten[1].refresh_reason = "MOVE"
    /\ session_plans[1][1].refresh_reason = Absent
    /\ session_plans[1][1].goal # in_flight[1].overwritten[1].goal
    /\ session_plans[1][1].steps_used = 1

\* Some planner call of the most recent turn answered with a plan.
PlannerAnswered ==
    \E i \in 1..Len(last.planner_calls) :
        last.planner_calls[i][2] \notin {"raise", "sdk_error"}

\* C39: a plan built from planner output in handle_student_message (the
\* step-budget refresh, the next plan after SOLVED, the bootstrap of a topic
\* shift) is persisted with step_budget = 6 whatever the budget before, and
\* a goal shift or a turn whose planner calls failed keeps the budget the
\* plan had.
C39_PlannerPlansGetDefaultBudget ==
    HandledTurn /\ last.branch \in {"topic_shift", "goal_shift", "solved", "not_solved"} =>
        IF last.branch = "topic_shift"
        THEN PlannerAnswered =>
                 session_plans[last.reply.new_session_id][1].step_budget = DefaultStepBudget
        ELSE IF PlannerAnswered
        THEN PersistedPlan.step_budget = DefaultStepBudget
        ELSE PersistedPlan.step_budget = ActivePlan.step_budget

\* C40: in every state reached through handle_student_message and
\* refresh_plan a session has at most one plan record, the plan's topic is
\* the topic of its Session, its difficulty is within [0.10, 0.95], it has at
\* most 3 target skills, and its mode and hint policy are among reinforce /
\* advance / transfer and low / medium / high, whatever the planner answered.
C40_PlansStayWellFormed ==
    \A sid \in SessionIds :
        /\ Len(session_plans[sid]) <= 1
        /\ session_plans[sid] # <<>> =>
               LET plan == session_plans[sid][1] IN
               /\ sid \in 1..Len(sessions)
               /\ plan.topic = sessions[sid].topic
               /\ plan.difficulty >= 10 /\ plan.difficulty <= 95
               /\ Len(plan.target_skills) <= 3
               /\ plan.mode \in {"reinforce", "advance", "transfer"}
               /\ plan.hint_policy \in {"low", "medium", "high"}

\* The session created by a topic shift holds the plan parsed from a text
\* with an unknown mode, four target skills and no readable difficulty.
C40_Witness ==
    /\ HandledTurn
    /\ last.branch = "topic_shift"
    /\ last.planner_calls = <<<<"topic_shift_new_session", "rp2">>>>
    /\ session_plans[2] # <<>>
    /\ session_plans[2][1].goal = "g2"
    /\ session_plans[2][1].topic = "t2"
    /\ Len(session_plans[2][1].target_skills) = 3
    /\ session_plans[2][1].mode = "reinforce"
    /\ session_plans[2][1].difficulty = 50

====
